---------------------------- MODULE Spec2Model ----------------------------
(***************************************************************************)
(* The 4-tier scoring engine of src/scoring_engine_4tier.py.               *)
(*                                                                         *)
(* Number representation.  The engine computes on Python floats; the model *)
(* computes on exact integers:                                             *)
(*   - every numeric input field (market cap, ratios, percentages, beta)   *)
(*     is held in thousandths: 200.0 is 200000, 9.999 is 9999, 1.1 is 1100 *)
(*   - a sub-score is a whole number of points (the code's 100, 85, ...),  *)
(*     the Tier 1 P/E sub-score is a fraction [num, den] of points         *)
(*   - a component score and the composite are held in hundredths of a     *)
(*     point (88.75 is 8875), which is what round(x, 2) returns            *)
(*   - a weight is held in percent (0.35 is 35)                            *)
(*   - a position size is held in half percents (8.5 % is 17), which is    *)
(*     what round(position * 2) returns before the division by 2          *)
(* round() is to nearest.  Where the exact value is a tie the float the    *)
(* engine rounds carries the rounding errors of the arithmetic before it   *)
(* and lands on either neighbour: the direction is an input of the model   *)
(* (see RoundFloat).                                                       *)
(***************************************************************************)
EXTENDS Integers, Sequences, FiniteSets, TLC

VARIABLES data, pc, result

vars == <<data, pc, result>>

-----------------------------------------------------------------------------
(* Helpers that stand for Python built-ins.                                *)

\* dict.get(key, default)
Get(d, key, default) == IF key \in DOMAIN d THEN d[key] ELSE default

\* d.get(group, {}).get(flag, False): a nested flag set is the set of its
\* flags that are true
Flag(d, group, flag) == flag \in Get(d, group, {})

\* abs(x)
Abs(x) == IF x < 0 THEN -x ELSE x

\* max(scores) over a non-empty list of numbers
Max(S) == CHOOSE x \in S : \A y \in S : y <= x

\* round(x) of a float x that the arithmetic before it computed for the exact
\* value num / den, den # 0.  Off a tie x rounds to the integer nearest to
\* num / den.  On an exact tie the rounding errors of that arithmetic leave x
\* just below the tie, just above it, or on it (and round() sends a float on
\* a tie to the even neighbour): the result is the lower neighbour, or the
\* upper one when up.
RoundFloat(num, den, up) ==
    LET n == IF den < 0 THEN -num ELSE num
        d == IF den < 0 THEN -den ELSE den
        q == n \div d
        r == n - q * d
    IN  IF 2 * r < d THEN q
        ELSE IF 2 * r > d THEN q + 1
        ELSE IF up THEN q + 1 ELSE q

\* round(x, 2) of the number of points x = num / den, in hundredths: the
\* nearest integer to 100 * num / den (the factor is cancelled when den has it)
round2(num, den, up) ==
    IF den % 100 = 0 THEN RoundFloat(num, den \div 100, up)
    ELSE RoundFloat(100 * num, den, up)

\* The twenty component scores are sums of whole sub-scores times weights of
\* two decimals: such a sum has no third decimal, round(x, 2) meets no tie and
\* the direction passed to round2 is immaterial.  The tier 1 P/E sub-score is
\* a quotient, so tier1_valuation can meet a tie, as can the composites and
\* the position size.
NoTie == FALSE

\* score_1 * w_1 + ... + score_n * w_n, the weights in percent
RECURSIVE WSum(_, _)
WSum(scores, w) ==
    IF scores = <<>> THEN 0
    ELSE Head(scores) * Head(w) + WSum(Tail(scores), Tail(w))

\* the sum of a sequence of numbers
RECURSIVE SeqSum(_)
SeqSum(s) == IF s = <<>> THEN 0 ELSE Head(s) + SeqSum(Tail(s))

-----------------------------------------------------------------------------
(* Class attributes and static helpers.                                    *)

\* float('inf') as max_cap of tier 1
Infinity == 2147483647

\* TIER_DEFINITIONS with the minimum score of tier 3 at 65, as in tier 2
TIER_DEFINITIONS_min65 ==
    [t \in 1..4 |->
        CASE t = 1 -> [name |-> "Mega-Cap Core", min_cap |-> 200000,
                       max_cap |-> Infinity, min_score |-> 60]
          [] t = 2 -> [name |-> "Large-Cap Growth", min_cap |-> 50000,
                       max_cap |-> 200000, min_score |-> 65]
          [] t = 3 -> [name |-> "Mid-Cap Emerging", min_cap |-> 10000,
                       max_cap |-> 50000, min_score |-> 65]
          [] t = 4 -> [name |-> "Small-Cap Moonshots", min_cap |-> 0,
                       max_cap |-> 10000, min_score |-> 70]]

TIER_DEFINITIONS ==
    [t \in 1..4 |->
        CASE t = 1 -> [name |-> "Mega-Cap Core", min_cap |-> 200000,
                       max_cap |-> Infinity, min_score |-> 60]
          [] t = 2 -> [name |-> "Large-Cap Growth", min_cap |-> 50000,
                       max_cap |-> 200000, min_score |-> 65]
          [] t = 3 -> [name |-> "Mid-Cap Emerging", min_cap |-> 10000,
                       max_cap |-> 50000, min_score |-> 67]
          [] t = 4 -> [name |-> "Small-Cap Moonshots", min_cap |-> 0,
                       max_cap |-> 10000, min_score |-> 70]]

\* TIER_WEIGHTS with the Growth weight of tier 3 at 0.32 as in tier 2 (the
\* difference moved to the fifth component)
TIER_WEIGHTS_flat ==
    [t \in 1..4 |->
        CASE t = 1 -> <<20, 35, 25, 10, 10>>
          [] t = 2 -> <<18, 28, 32, 12, 10>>
          [] t = 3 -> <<15, 22, 32, 15, 16>>
          [] t = 4 -> <<10, 15, 40, 15, 20>>]

\* the weights in the order V, Q, G, M and the tier's fifth component
TIER_WEIGHTS ==
    [t \in 1..4 |->
        CASE t = 1 -> <<20, 35, 25, 10, 10>>
          [] t = 2 -> <<18, 28, 32, 12, 10>>
          [] t = 3 -> <<15, 22, 38, 15, 10>>
          [] t = 4 -> <<10, 15, 40, 15, 20>>]

\* determine_tier with > in place of >=: a cap on a boundary falls to the
\* tier below
determine_tier_lt(market_cap_billions) ==
    IF market_cap_billions > 200000 THEN 1
    ELSE IF market_cap_billions > 50000 THEN 2
    ELSE IF market_cap_billions > 10000 THEN 3
    ELSE 4

\* Determine tier based on market cap
determine_tier(market_cap_billions) ==
    IF market_cap_billions >= 200000 THEN 1
    ELSE IF market_cap_billions >= 50000 THEN 2
    ELSE IF market_cap_billions >= 10000 THEN 3
    ELSE 4

\* cap_score without the cap
cap_score_none(score, maximum) == score

\* min(score, maximum)
cap_score(score, maximum) == IF score < maximum THEN score ELSE maximum

\* max(score, minimum)
floor_score(score, minimum) == IF score > minimum THEN score ELSE minimum

\* bracket_score with > in place of >=: a value on a threshold falls to the
\* next pair
RECURSIVE bracket_score_strict(_, _)
bracket_score_strict(value, brackets) ==
    IF Len(brackets) = 1 THEN Head(brackets)[2]
    ELSE IF value > Head(brackets)[1] THEN Head(brackets)[2]
    ELSE bracket_score_strict(value, Tail(brackets))

\* the loop over the (threshold, score) pairs; when no pair matches the last
\* pair's score is returned
RECURSIVE bracket_score(_, _)
bracket_score(value, brackets) ==
    IF value >= Head(brackets)[1] THEN Head(brackets)[2]
    ELSE IF Len(brackets) = 1 THEN Head(brackets)[2]
    ELSE bracket_score(value, Tail(brackets))

-----------------------------------------------------------------------------
(* calculate_position_size                                                 *)

base_allocations == [t \in 1..4 |-> CASE t = 1 -> 10 [] t = 2 -> 7
                                      [] t = 3 -> 5 [] t = 4 -> 3]

\* vol_multipliers with tier 4 at 0.3
vol_multipliers_low4 == [t \in 1..4 |-> CASE t = 1 -> 75 [] t = 2 -> 100
                                          [] t = 3 -> 130 [] t = 4 -> 30]

\* 0.75, 1.0, 1.3, 1.5 in hundredths
vol_multipliers == [t \in 1..4 |-> CASE t = 1 -> 75 [] t = 2 -> 100
                                     [] t = 3 -> 130 [] t = 4 -> 150]

\* vol_adjustment with the beta term subtracted
vol_adjustment_minus(tier, beta) ==
    100000 - (beta - 1000) * vol_multipliers[tier]

\* vol_adjustment = 1 + ((beta - 1) * vol_mult), in 1/100000 (beta in
\* thousandths, vol_mult in hundredths)
vol_adjustment(tier, beta) == 100000 + (beta - 1000) * vol_multipliers[tier]

\* position * 2 = (base * (score / 100)) / vol_adjustment * 2 as the fraction
\* num / den, the score in hundredths of a point
position_times_2(tier, score, beta) ==
    [num |-> 20 * base_allocations[tier] * score,
     den |-> vol_adjustment(tier, beta)]

\* calculate_position_size with the result capped at the tier's base
\* allocation
calculate_position_size_capped(tier, score, beta, up) ==
    LET p == position_times_2(tier, score, beta)
    IN  IF p.den = 0
        THEN [raised |-> TRUE, error |-> "ZeroDivisionError", position |-> 0]
        ELSE [raised |-> FALSE, error |-> "",
              position |-> cap_score(RoundFloat(p.num, p.den, up),
                                     2 * base_allocations[tier])]

\* The outcome of the call: the position in half percents, or the exception
\* the float division raises when vol_adjustment is 0.
calculate_position_size(tier, score, beta, up) ==
    LET p == position_times_2(tier, score, beta)
    IN  IF p.den = 0
        THEN [raised |-> TRUE, error |-> "ZeroDivisionError", position |-> 0]
        ELSE [raised |-> FALSE, error |-> "",
              position |-> RoundFloat(p.num, p.den, up)]

-----------------------------------------------------------------------------
(* TIER 1: MEGA-CAP CORE                                                   *)

tier1_valuation_fcf_brackets ==
    <<<<5000, 100>>, <<3000, 80>>, <<2000, 60>>, <<1000, 40>>, <<0, 20>>>>

peg_brackets_reversed ==
    <<<<1000, 100>>, <<1500, 85>>, <<2000, 70>>, <<2500, 50>>>>

\* Component 1: P/E Ratio.  pe_score = 100 - ((current_pe / historical_pe
\* - 1) * 100), floored at 0 and capped at 100, as a fraction of points.
tier1_valuation_pe_score(d) ==
    LET current_pe == Get(d, "pe_ratio", 0)
        historical_pe == Get(d, "historical_pe_avg", current_pe)
    IN  IF historical_pe > 0
        THEN [num |-> cap_score(floor_score(200 * historical_pe
                                             - 100 * current_pe, 0),
                                100 * historical_pe),
              den |-> historical_pe]
        ELSE [num |-> 50, den |-> 1]

\* Component 2: FCF Yield
tier1_valuation_fcf_score(d) ==
    bracket_score(Get(d, "fcf_yield_pct", 0), tier1_valuation_fcf_brackets)

\* the for loop over peg_brackets_reversed, peg_score preset to 30
RECURSIVE peg_loop(_, _)
peg_loop(peg_ratio, brackets) ==
    IF brackets = <<>> THEN 30
    ELSE IF peg_ratio <= Head(brackets)[1] THEN Head(brackets)[2]
    ELSE peg_loop(peg_ratio, Tail(brackets))

\* Component 3: PEG Ratio
tier1_valuation_peg_score(d) ==
    LET peg_ratio == Get(d, "peg_ratio", 999000)
    IN  IF peg_ratio < 1000 THEN 100
        ELSE peg_loop(peg_ratio, peg_brackets_reversed)

tier1_valuation_w == <<35, 30, 35>>

tier1_valuation(d, up) ==
    LET pe == tier1_valuation_pe_score(d)
        w == tier1_valuation_w
    IN  round2(pe.num * w[1]
               + (tier1_valuation_fcf_score(d) * w[2]
                  + tier1_valuation_peg_score(d) * w[3]) * pe.den,
               100 * pe.den, up)

roic_brackets ==
    <<<<25000, 100>>, <<20000, 90>>, <<15000, 75>>, <<10000, 50>>, <<0, 25>>>>

op_margin_brackets ==
    <<<<30000, 100>>, <<20000, 85>>, <<15000, 70>>, <<10000, 50>>, <<0, 30>>>>

margin_trend_brackets ==
    <<<<200000, 100>>, <<100000, 85>>, <<50000, 70>>, <<-50000, 60>>,
      <<-999000, 25>>>>

cash_brackets == <<<<1200, 100>>, <<1000, 80>>, <<800, 60>>, <<0, 30>>>>

tier1_quality_roic_score(d) ==
    bracket_score(Get(d, "roic_pct", 0), roic_brackets)

tier1_quality_op_margin_score(d) ==
    bracket_score(Get(d, "operating_margin_pct", 0), op_margin_brackets)

tier1_quality_margin_trend_score(d) ==
    bracket_score(Get(d, "margin_trend_bps_per_year", 0), margin_trend_brackets)

\* the moat bonuses summed onto the base, before the cap
tier1_quality_moat_sum(d) ==
    50 + (IF Flag(d, "moat_bonuses", "network_effects") THEN 25 ELSE 0)
       + (IF Flag(d, "moat_bonuses", "economies_of_scale") THEN 20 ELSE 0)
       + (IF Flag(d, "moat_bonuses", "switching_costs") THEN 20 ELSE 0)
       + (IF Flag(d, "moat_bonuses", "intangible_assets") THEN 15 ELSE 0)
       + (IF Flag(d, "moat_bonuses", "regulatory_moat") THEN 10 ELSE 0)

\* Component 4: Competitive Moat
tier1_quality_moat_score(d) == cap_score(tier1_quality_moat_sum(d), 100)

tier1_quality_mgmt_base(d) ==
    LET earnings_beat_rate == Get(d, "earnings_beat_rate_pct", 50000)
    IN  IF earnings_beat_rate > 80000 THEN 100
        ELSE IF earnings_beat_rate >= 70000 THEN 85
        ELSE IF earnings_beat_rate >= 60000 THEN 70
        ELSE 50

\* Component 5: Management Execution
tier1_quality_mgmt_score(d) ==
    cap_score(tier1_quality_mgmt_base(d)
              + (IF Flag(d, "mgmt_bonuses", "smart_ma") THEN 10 ELSE 0)
              + (IF Flag(d, "mgmt_bonuses", "consistent_buybacks") THEN 8 ELSE 0)
              + (IF Flag(d, "mgmt_bonuses", "growing_dividend") THEN 7 ELSE 0),
              100)

tier1_quality_cash_conv_score(d) ==
    bracket_score(Get(d, "cash_conversion_ratio", 0), cash_brackets)

tier1_quality_w == <<30, 20, 12, 18, 10, 10>>

tier1_quality(d) ==
    round2(WSum(<<tier1_quality_roic_score(d),
                  tier1_quality_op_margin_score(d),
                  tier1_quality_margin_trend_score(d),
                  tier1_quality_moat_score(d),
                  tier1_quality_mgmt_score(d),
                  tier1_quality_cash_conv_score(d)>>, tier1_quality_w), 100, NoTie)

rev_brackets ==
    <<<<20000, 100>>, <<15000, 85>>, <<10000, 65>>, <<7000, 45>>,
      <<5000, 30>>, <<0, 15>>>>

eps_brackets ==
    <<<<25000, 100>>, <<18000, 85>>, <<12000, 70>>, <<8000, 50>>, <<0, 30>>>>

analyst_brackets ==
    <<<<15000, 100>>, <<12000, 80>>, <<8000, 60>>, <<5000, 40>>, <<0, 20>>>>

tier1_growth_rev_growth_score(d) ==
    bracket_score(Get(d, "revenue_cagr_3yr_pct", 0), rev_brackets)

\* Growth Consistency with the +30 step starting above 1 and the +10 step
\* ending above -1
tier1_growth_consistency_score_open(d) ==
    LET delta == Get(d, "revenue_growth_recent_yoy_pct", 0)
                 - Get(d, "revenue_cagr_3yr_pct", 0)
    IN  IF delta > 3000 THEN 100
        ELSE IF delta > 1000 THEN 80
        ELSE IF delta > -1000 THEN 60
        ELSE IF delta >= -3000 THEN 40
        ELSE 20

\* Component 2: Growth Consistency, the signed-step ladder on delta
tier1_growth_consistency_score(d) ==
    LET consistency_base == 50
        delta == Get(d, "revenue_growth_recent_yoy_pct", 0)
                 - Get(d, "revenue_cagr_3yr_pct", 0)
    IN  cap_score(IF delta > 3000 THEN consistency_base + 50
                  ELSE IF delta >= 1000 THEN consistency_base + 30
                  ELSE IF Abs(delta) <= 1000 THEN consistency_base + 10
                  ELSE IF delta >= -3000 THEN consistency_base - 10
                  ELSE consistency_base - 30, 100)

\* Component 3: EPS Growth with the quality check bonus/penalty
tier1_growth_eps_score(d) ==
    LET eps_cagr == Get(d, "eps_cagr_3yr_pct", 0)
        rev_cagr == Get(d, "revenue_cagr_3yr_pct", 0)
        eps_base_score == bracket_score(eps_cagr, eps_brackets)
    IN  cap_score(floor_score(
            IF eps_cagr > rev_cagr + 5000 THEN eps_base_score + 15
            ELSE IF eps_cagr < rev_cagr - 5000 THEN eps_base_score - 15
            ELSE eps_base_score, 0), 100)

tier1_growth_future_base(d) ==
    LET tam_billions == Get(d, "tam_billions", 0)
        market_share_pct == Get(d, "market_share_pct", 100000)
    IN  IF tam_billions > 500000 /\ market_share_pct < 20000 THEN 100
        ELSE IF tam_billions >= 200000 /\ market_share_pct < 30000 THEN 85
        ELSE IF tam_billions >= 100000 /\ market_share_pct < 40000 THEN 70
        ELSE 50

\* Component 4: Future Growth Potential
tier1_growth_future_score(d) ==
    cap_score(tier1_growth_future_base(d)
        + (IF Flag(d, "future_growth_bonuses", "geographic_expansion") THEN 10 ELSE 0)
        + (IF Flag(d, "future_growth_bonuses", "new_product_cycles") THEN 10 ELSE 0)
        + (IF Flag(d, "future_growth_bonuses", "platform_effects") THEN 10 ELSE 0)
        + (IF Flag(d, "future_growth_bonuses", "multiple_growth_vectors") THEN 10 ELSE 0),
        100)

tier1_growth_analyst_score(d) ==
    bracket_score(Get(d, "analyst_forward_growth_pct", 0), analyst_brackets)

tier1_growth_w == <<30, 15, 25, 15, 15>>

tier1_growth(d) ==
    round2(WSum(<<tier1_growth_rev_growth_score(d),
                  tier1_growth_consistency_score(d),
                  tier1_growth_eps_score(d),
                  tier1_growth_future_score(d),
                  tier1_growth_analyst_score(d)>>, tier1_growth_w), 100, NoTie)

return_brackets ==
    <<<<30000, 100>>, <<20000, 80>>, <<10000, 60>>, <<0, 45>>, <<-10000, 40>>,
      <<-999000, 60>>>>

rel_brackets ==
    <<<<10000, 100>>, <<5000, 75>>, <<0, 60>>, <<-5000, 50>>, <<-999000, 30>>>>

\* Component 1: 12-Month Price Return, return_brackets[:-1] above -10
tier1_momentum_return_score(d) ==
    LET return_12m == Get(d, "return_12m_pct", 0)
    IN  IF return_12m < -10000 THEN 60
        ELSE bracket_score(return_12m,
                           SubSeq(return_brackets, 1, Len(return_brackets) - 1))

tier1_momentum_rel_score(d) ==
    bracket_score(Get(d, "return_12m_pct", 0) - Get(d, "spy_return_12m_pct", 0),
                  rel_brackets)

\* Component 3: Technical Setup
tier1_momentum_technical_score(d) ==
    LET price == Get(d, "price", 0)
        ma_50 == Get(d, "ma_50", 0)
        ma_200 == Get(d, "ma_200", 0)
    IN  IF price > ma_50 /\ price > ma_200 THEN 100
        ELSE IF price > ma_200 THEN 70
        ELSE IF price > ma_50 THEN 55
        ELSE IF ma_50 < price /\ price < ma_200 THEN 50
        ELSE 30

tier1_momentum_w == <<40, 35, 25>>

tier1_momentum(d) ==
    round2(WSum(<<tier1_momentum_return_score(d),
                  tier1_momentum_rel_score(d),
                  tier1_momentum_technical_score(d)>>, tier1_momentum_w), 100, NoTie)

tier1_fh_net_cash_score(d) ==
    LET net_cash_billions == Get(d, "net_cash_billions", 0)
    IN  IF net_cash_billions > 75000 THEN 100
        ELSE IF net_cash_billions >= 50000 THEN 90
        ELSE IF net_cash_billions >= 25000 THEN 80
        ELSE IF net_cash_billions >= 0 THEN 70
        ELSE IF net_cash_billions >= -50000 THEN 60
        ELSE 40

tier1_fh_fcf_brackets ==
    <<<<20000, 100>>, <<15000, 90>>, <<10000, 80>>, <<5000, 60>>, <<0, 40>>>>

tier1_fh_fcf_score(d) ==
    bracket_score(Get(d, "fcf_billions", 0), tier1_fh_fcf_brackets)

\* Component 3: Capital Allocation
tier1_fh_cap_alloc_score(d) ==
    cap_score(50
        + (IF Flag(d, "capital_allocation_bonuses", "buybacks_rnd_gt_10pct") THEN 25 ELSE 0)
        + (IF Flag(d, "capital_allocation_bonuses", "value_creating_ma") THEN 20 ELSE 0)
        + (IF Flag(d, "capital_allocation_bonuses", "growing_dividend") THEN 15 ELSE 0)
        + (IF Flag(d, "capital_allocation_bonuses", "disciplined_deployment") THEN 10 ELSE 0),
        100)

tier1_financial_health_w == <<50, 40, 10>>

tier1_financial_health(d) ==
    round2(WSum(<<tier1_fh_net_cash_score(d),
                  tier1_fh_fcf_score(d),
                  tier1_fh_cap_alloc_score(d)>>, tier1_financial_health_w), 100, NoTie)

\* the tier 1 composite weighted as tier 2
tier1_composite_w_tier2 == <<18, 28, 32, 12, 10>>

tier1_composite_w == <<20, 35, 25, 10, 10>>

\* the five component scores of tier 1, in hundredths of a point
tier1_components(d, up) ==
    <<tier1_valuation(d, up), tier1_quality(d), tier1_growth(d),
      tier1_momentum(d), tier1_financial_health(d)>>

\* the pair the method returns: the composite rounded to 2 decimals, in
\* hundredths of a point, and the component breakdown
calculate_tier1_composite(d, up) ==
    LET components == tier1_components(d, up.valuation)
    IN  [composite |-> round2(WSum(components, tier1_composite_w), 10000,
                              up.composite),
         components |-> components]

-----------------------------------------------------------------------------
(* TIER 2: LARGE-CAP GROWTH                                                *)

\* Component 1 with an absent is_profitable read as false
tier2_valuation_pe_ps_score_unprofitable(d) ==
    LET forward_pe == Get(d, "forward_pe", 999000)
        ps_ratio == Get(d, "ps_ratio", 999000)
    IN  IF Get(d, "is_profitable", FALSE)
        THEN IF forward_pe < 25000 THEN 100
             ELSE IF forward_pe < 35000 THEN 85
             ELSE IF forward_pe < 50000 THEN 70
             ELSE IF forward_pe < 70000 THEN 50
             ELSE 35
        ELSE IF ps_ratio < 8000 THEN 100
             ELSE IF ps_ratio < 12000 THEN 85
             ELSE IF ps_ratio < 18000 THEN 70
             ELSE IF ps_ratio < 25000 THEN 50
             ELSE IF ps_ratio < 35000 THEN 35
             ELSE 25

\* Component 1: Forward P/E, or P/S with the growth context bonus when the
\* issuer is unprofitable
tier2_valuation_pe_ps_score(d) ==
    IF Get(d, "is_profitable", TRUE)
    THEN LET forward_pe == Get(d, "forward_pe", 999000)
         IN  IF forward_pe < 25000 THEN 100
             ELSE IF forward_pe < 35000 THEN 85
             ELSE IF forward_pe < 50000 THEN 70
             ELSE IF forward_pe < 70000 THEN 50
             ELSE 35
    ELSE LET ps_ratio == Get(d, "ps_ratio", 999000)
             growth_rate == Get(d, "revenue_growth_recent_yoy_pct", 0)
             base == IF ps_ratio < 8000 THEN 100
                     ELSE IF ps_ratio < 12000 THEN 85
                     ELSE IF ps_ratio < 18000 THEN 70
                     ELSE IF ps_ratio < 25000 THEN 50
                     ELSE IF ps_ratio < 35000 THEN 35
                     ELSE 25
             bonus == IF growth_rate > 50000 /\ ps_ratio > 35000 THEN 15
                      ELSE IF growth_rate > 50000 /\ 25000 <= ps_ratio
                              /\ ps_ratio <= 35000 THEN 25
                      ELSE IF growth_rate > 35000 /\ 18000 <= ps_ratio
                              /\ ps_ratio <= 25000 THEN 20
                      ELSE 0
         IN  cap_score(base + bonus, 100)

\* Component 2: PEG Ratio
tier2_valuation_peg_score(d) ==
    LET peg_ratio == Get(d, "peg_ratio", 999000)
    IN  IF peg_ratio < 1000 THEN 100
        ELSE IF peg_ratio < 1500 THEN 85
        ELSE IF peg_ratio < 2000 THEN 70
        ELSE IF peg_ratio < 2500 THEN 50
        ELSE 30

\* Component 3: Relative Valuation; both lookups default to pe_ps_score (a
\* number of points, 1000 thousandths each)
tier2_valuation_rel_val_score(d) ==
    LET pe_ps_score == tier2_valuation_pe_ps_score(d)
        sector_median_pe == Get(d, "sector_median_pe", 1000 * pe_ps_score)
        stock_pe == Get(d, "forward_pe", 1000 * pe_ps_score)
    IN  IF stock_pe < sector_median_pe THEN 100
        ELSE IF 100 * stock_pe <= 115 * sector_median_pe THEN 80
        ELSE IF 100 * stock_pe <= 130 * sector_median_pe THEN 60
        ELSE IF 100 * stock_pe <= 150 * sector_median_pe THEN 40
        ELSE 20

tier2_valuation_w == <<55, 25, 20>>

tier2_valuation(d) ==
    round2(WSum(<<tier2_valuation_pe_ps_score(d),
                  tier2_valuation_peg_score(d),
                  tier2_valuation_rel_val_score(d)>>, tier2_valuation_w), 100, NoTie)

rev_scale_brackets ==
    <<<<10000, 100>>, <<7000, 90>>, <<5000, 80>>, <<3000, 70>>, <<2000, 60>>,
      <<0, 45>>>>

tier2_quality_rev_scale_score(d) ==
    bracket_score(Get(d, "revenue_billions", 0), rev_scale_brackets)

\* Component 2: Profitability Status
tier2_quality_profit_score(d) ==
    LET op_margin == Get(d, "operating_margin_pct", 0)
        path_to_profit_quarters == Get(d, "path_to_profit_quarters", 999000)
    IN  IF Get(d, "is_gaap_profitable", FALSE)
        THEN IF op_margin > 20000 THEN 100
             ELSE IF op_margin >= 15000 THEN 90
             ELSE IF op_margin >= 10000 THEN 75
             ELSE IF op_margin >= 5000 THEN 60
             ELSE 50
        ELSE IF path_to_profit_quarters < 4000 THEN 40
             ELSE IF path_to_profit_quarters < 8000 THEN 30
             ELSE 15

tier2_quality_gross_margin_score(d) ==
    LET gross_margin == Get(d, "gross_margin_pct", 0)
    IN  IF gross_margin > 75000 THEN 100
        ELSE IF gross_margin >= 65000 THEN 90
        ELSE IF gross_margin >= 55000 THEN 80
        ELSE IF gross_margin >= 45000 THEN 70
        ELSE IF gross_margin >= 35000 THEN 55
        ELSE 35

tier2_quality_margin_traj_score(d) ==
    LET margin_trend_bps == Get(d, "margin_trend_bps_per_year", 0)
    IN  IF margin_trend_bps > 300000 THEN 100
        ELSE IF margin_trend_bps >= 200000 THEN 90
        ELSE IF margin_trend_bps >= 100000 THEN 80
        ELSE IF margin_trend_bps >= 50000 THEN 65
        ELSE IF Abs(margin_trend_bps) <= 50000 THEN 50
        ELSE 25

\* the SaaS branch: Net Revenue Retention with the dollar-retention kicker
tier2_quality_retention_saas(d) ==
    LET nrr_pct == Get(d, "nrr_pct", 100000)
        dbr_pct == Get(d, "dollar_based_retention_pct", 100000)
        retention_base == IF nrr_pct > 130000 THEN 100
                          ELSE IF nrr_pct >= 120000 THEN 90
                          ELSE IF nrr_pct >= 110000 THEN 80
                          ELSE IF nrr_pct >= 100000 THEN 65
                          ELSE IF nrr_pct >= 90000 THEN 45
                          ELSE 25
    IN  cap_score(retention_base + (IF dbr_pct > 105000 THEN 15 ELSE 0), 100)

\* the non-SaaS branch: the list scores of the four proxy scores
tier2_quality_retention_proxies(d) ==
    LET repeat_revenue_pct == Get(d, "repeat_revenue_pct", 0)
        customer_churn_pct == Get(d, "customer_churn_pct", 100000)
        customer_growth_pct == Get(d, "customer_growth_pct", 0)
        top_customer_concentration_pct ==
            Get(d, "top_customer_concentration_pct", 100000)
    IN  << IF repeat_revenue_pct > 70000 THEN 100
           ELSE IF repeat_revenue_pct >= 50000 THEN 80
           ELSE IF repeat_revenue_pct >= 30000 THEN 60
           ELSE 40,
           IF customer_churn_pct < 5000 THEN 100
           ELSE IF customer_churn_pct < 10000 THEN 75
           ELSE IF customer_churn_pct < 15000 THEN 50
           ELSE 30,
           IF customer_growth_pct > 25000 THEN 100
           ELSE IF customer_growth_pct >= 15000 THEN 80
           ELSE IF customer_growth_pct >= 5000 THEN 60
           ELSE 40,
           IF top_customer_concentration_pct < 10000 THEN 85
           ELSE IF top_customer_concentration_pct < 20000 THEN 70
           ELSE IF top_customer_concentration_pct < 30000 THEN 50
           ELSE 25 >>

\* Customer Retention as the best of the NRR score and the proxy scores,
\* whatever is_saas says
tier2_quality_retention_score_best(d) ==
    LET scores == tier2_quality_retention_proxies(d)
    IN  Max({scores[i] : i \in 1..Len(scores)}
                \cup {tier2_quality_retention_saas(d)})

\* Component 5: Customer Retention
tier2_quality_retention_score(d) ==
    IF Get(d, "is_saas", FALSE)
    THEN tier2_quality_retention_saas(d)
    ELSE LET scores == tier2_quality_retention_proxies(d)
         IN  IF scores # <<>>
             THEN Max({scores[i] : i \in 1..Len(scores)})
             ELSE 50

\* the market position bonuses summed onto the base, before the cap
tier2_quality_market_pos_sum(d) ==
    50 + (IF Flag(d, "market_position_bonuses", "top_1_or_2") THEN 35
          ELSE IF Flag(d, "market_position_bonuses", "top_3_to_5") THEN 25
          ELSE 0)
       + (IF Flag(d, "market_position_bonuses", "gaining_share") THEN 25 ELSE 0)
       + (IF Flag(d, "market_position_bonuses", "category_leader") THEN 30 ELSE 0)

\* Component 6: Market Position
tier2_quality_market_pos_score(d) ==
    cap_score(tier2_quality_market_pos_sum(d), 100)

tier2_quality_w == <<15, 18, 20, 15, 20, 12>>

tier2_quality(d) ==
    round2(WSum(<<tier2_quality_rev_scale_score(d),
                  tier2_quality_profit_score(d),
                  tier2_quality_gross_margin_score(d),
                  tier2_quality_margin_traj_score(d),
                  tier2_quality_retention_score(d),
                  tier2_quality_market_pos_score(d)>>, tier2_quality_w), 100, NoTie)

tier2_growth_rev_growth_score(d) ==
    LET ttm_growth == Get(d, "revenue_growth_ttm_pct", 0)
    IN  IF ttm_growth > 35000 THEN 100
        ELSE IF ttm_growth >= 28000 THEN 90
        ELSE IF ttm_growth >= 22000 THEN 80
        ELSE IF ttm_growth >= 18000 THEN 70
        ELSE IF ttm_growth >= 15000 THEN 55
        ELSE IF ttm_growth >= 12000 THEN 40
        ELSE 20

\* Component 2: Growth Consistency; years_of_25plus_growth is a whole number
\* of years, in thousandths like every number
tier2_growth_consistency_score(d) ==
    LET years_of_25plus_growth == Get(d, "years_of_25plus_growth", 0)
    IN  IF years_of_25plus_growth >= 3000 THEN 100
        ELSE IF years_of_25plus_growth = 2000 THEN 85
        ELSE IF Get(d, "is_accelerating", FALSE) THEN 80
        ELSE IF Get(d, "revenue_growth_ttm_pct", 0) >= 20000 THEN 60
        ELSE 20

\* Component 3: Forward Growth Estimates
tier2_growth_forward_score(d) ==
    LET forward_growth_estimate == Get(d, "analyst_forward_growth_pct", 0)
        current_growth == Get(d, "revenue_growth_ttm_pct", 0)
        forward_base == IF forward_growth_estimate > 30000 THEN 100
                        ELSE IF forward_growth_estimate >= 25000 THEN 85
                        ELSE IF forward_growth_estimate >= 20000 THEN 70
                        ELSE IF forward_growth_estimate >= 15000 THEN 55
                        ELSE IF forward_growth_estimate >= 10000 THEN 40
                        ELSE 20
    IN  cap_score(forward_base
                  + (IF forward_growth_estimate > current_growth + 5000
                     THEN 20 ELSE 0), 100)

\* Component 4: EPS vs Revenue Growth
tier2_growth_eps_vs_rev_score(d) ==
    LET eps_growth == Get(d, "eps_growth_pct", 0)
        rev_growth == Get(d, "revenue_growth_ttm_pct", 0)
        eps_vs_rev_base == 50
    IN  cap_score(IF eps_growth > rev_growth + 7000 THEN eps_vs_rev_base + 50
                  ELSE IF Abs(eps_growth - rev_growth) <= 5000
                       THEN eps_vs_rev_base + 20
                  ELSE IF eps_growth < rev_growth - 5000
                       THEN eps_vs_rev_base - 20
                  ELSE eps_vs_rev_base, 100)

tier2_growth_tam_score(d) ==
    LET tam_billions == Get(d, "tam_billions", 0)
        penetration_pct == Get(d, "market_penetration_pct", 100000)
    IN  IF tam_billions > 100000 /\ penetration_pct < 10000 THEN 100
        ELSE IF tam_billions >= 75000 /\ penetration_pct < 12000 THEN 90
        ELSE IF tam_billions >= 50000 /\ penetration_pct < 15000 THEN 80
        ELSE IF tam_billions >= 25000 /\ penetration_pct < 20000 THEN 65
        ELSE 40

\* Component 6: Growth Drivers
tier2_growth_drivers_score(d) ==
    cap_score(50
        + (IF Flag(d, "growth_driver_bonuses", "multiple_segments_20plus") THEN 25 ELSE 0)
        + (IF Flag(d, "growth_driver_bonuses", "geographic_expansion") THEN 15 ELSE 0)
        + (IF Flag(d, "growth_driver_bonuses", "new_products") THEN 15 ELSE 0)
        + (IF Flag(d, "growth_driver_bonuses", "platform_effects") THEN 15 ELSE 0)
        + (IF Flag(d, "growth_driver_bonuses", "viral_network") THEN 10 ELSE 0),
        100)

tier2_growth_cyclicality_score(d) ==
    LET business_type == Get(d, "business_type", "software")
    IN  IF business_type \in {"software", "saas"} THEN 100
        ELSE IF business_type = "early_mid_cycle" THEN 85
        ELSE IF business_type = "late_cycle_secular" THEN 70
        ELSE IF business_type = "peak_cycle" THEN 40
        ELSE 20

tier2_growth_w == <<25, 15, 20, 10, 15, 10, 5>>

tier2_growth(d) ==
    round2(WSum(<<tier2_growth_rev_growth_score(d),
                  tier2_growth_consistency_score(d),
                  tier2_growth_forward_score(d),
                  tier2_growth_eps_vs_rev_score(d),
                  tier2_growth_tam_score(d),
                  tier2_growth_drivers_score(d),
                  tier2_growth_cyclicality_score(d)>>, tier2_growth_w), 100, NoTie)

\* Component 1: 6-Month Price Performance with the institutional bonuses
tier2_momentum_return_score(d) ==
    LET return_6m == Get(d, "return_6m_pct", 0)
        return_base == IF return_6m > 50000 THEN 100
                       ELSE IF return_6m >= 35000 THEN 85
                       ELSE IF return_6m >= 20000 THEN 70
                       ELSE IF return_6m >= 10000 THEN 50
                       ELSE IF return_6m >= 0 THEN 40
                       ELSE 60
    IN  cap_score(return_base
        + (IF Flag(d, "institutional_bonuses", "increasing_ownership") THEN 15 ELSE 0)
        + (IF Flag(d, "institutional_bonuses", "smart_money") THEN 10 ELSE 0)
        + (IF Flag(d, "institutional_bonuses", "insider_buying") THEN 10 ELSE 0),
        100)

\* Component 2: Relative Strength vs QQQ with the analyst momentum bonuses
tier2_momentum_rel_score(d) ==
    LET rel_perf == Get(d, "return_6m_pct", 0) - Get(d, "qqq_return_6m_pct", 0)
        rel_base == IF rel_perf > 15000 THEN 100
                    ELSE IF rel_perf >= 8000 THEN 80
                    ELSE IF rel_perf >= 0 THEN 60
                    ELSE IF rel_perf >= -8000 THEN 45
                    ELSE 30
    IN  cap_score(rel_base
        + (IF Flag(d, "analyst_momentum_bonuses", "multiple_upgrades") THEN 15 ELSE 0)
        + (IF Flag(d, "analyst_momentum_bonuses", "price_target_increases") THEN 10 ELSE 0)
        + (IF Flag(d, "analyst_momentum_bonuses", "positive_revisions") THEN 10 ELSE 0),
        100)

\* Component 3: Technical Setup
tier2_momentum_technical_score(d) ==
    LET price == Get(d, "price", 0)
        ma_50 == Get(d, "ma_50", 0)
        ma_200 == Get(d, "ma_200", 0)
    IN  IF price > ma_50 /\ price > ma_200 THEN 100
        ELSE IF price > ma_200 THEN 70
        ELSE IF price > ma_50 THEN 55
        ELSE IF ma_50 < price /\ price < ma_200 THEN 50
        ELSE 30

tier2_momentum_w == <<40, 35, 25>>

tier2_momentum(d) ==
    round2(WSum(<<tier2_momentum_return_score(d),
                  tier2_momentum_rel_score(d),
                  tier2_momentum_technical_score(d)>>, tier2_momentum_w), 100, NoTie)

\* Component 1: Competitive Position Evolution (sector_growth * 1.5, * 1.2)
tier2_sm_comp_pos_score(d) ==
    LET company_growth == Get(d, "revenue_growth_ttm_pct", 0)
        sector_growth == Get(d, "sector_avg_growth_pct", 0)
    IN  IF 10 * company_growth > 15 * sector_growth THEN 100
        ELSE IF 10 * company_growth > 12 * sector_growth THEN 80
        ELSE IF company_growth >= sector_growth THEN 60
        ELSE 30

\* Component 2: Moat Development
tier2_sm_moat_score(d) ==
    cap_score(50
        + (IF Flag(d, "moat_development_bonuses", "network_effects") THEN 30 ELSE 0)
        + (IF Flag(d, "moat_development_bonuses", "switching_costs") THEN 25 ELSE 0)
        + (IF Flag(d, "moat_development_bonuses", "economies_of_scale") THEN 20 ELSE 0)
        + (IF Flag(d, "moat_development_bonuses", "brand_ecosystem") THEN 20 ELSE 0)
        + (IF Flag(d, "moat_development_bonuses", "data_ip_moat") THEN 15 ELSE 0),
        100)

\* Component 3: Operating Leverage Inflection
tier2_sm_op_leverage_score(d) ==
    LET margin_expansion_bps == Get(d, "margin_trend_bps_per_year", 0)
        revenue_growth_pct == Get(d, "revenue_growth_ttm_pct", 0)
    IN  IF margin_expansion_bps > revenue_growth_pct * 10 THEN 100
        ELSE IF margin_expansion_bps > 0 THEN 75
        ELSE IF margin_expansion_bps > -100000 THEN 50
        ELSE 30

\* Component 4: Strategic Partnerships
tier2_sm_partnership_score(d) ==
    cap_score(50
        + (IF Flag(d, "partnership_bonuses", "major_tech_partners") THEN 25 ELSE 0)
        + (IF Flag(d, "partnership_bonuses", "gov_contracts") THEN 25 ELSE 0)
        + (IF Flag(d, "partnership_bonuses", "ecosystem_integrations") THEN 20 ELSE 0)
        + (IF Flag(d, "partnership_bonuses", "strategic_customers") THEN 15 ELSE 0),
        100)

tier2_scale_moat_w == <<35, 30, 20, 15>>

tier2_scale_moat(d) ==
    round2(WSum(<<tier2_sm_comp_pos_score(d),
                  tier2_sm_moat_score(d),
                  tier2_sm_op_leverage_score(d),
                  tier2_sm_partnership_score(d)>>, tier2_scale_moat_w), 100, NoTie)

tier2_composite_w == <<18, 28, 32, 12, 10>>

tier2_components(d) ==
    <<tier2_valuation(d), tier2_quality(d), tier2_growth(d),
      tier2_momentum(d), tier2_scale_moat(d)>>

calculate_tier2_composite(d, up) ==
    LET components == tier2_components(d)
    IN  [composite |-> round2(WSum(components, tier2_composite_w), 10000,
                              up.composite),
         components |-> components]

-----------------------------------------------------------------------------
(* TIER 3: MID-CAP EMERGING                                                *)

\* Component 1: Price-to-Sales with the growth context bonus
tier3_valuation_ps_score(d) ==
    LET ps_ratio == Get(d, "ps_ratio", 999000)
        growth_rate == Get(d, "revenue_growth_ttm_pct", 0)
        ps_base == IF ps_ratio < 10000 THEN 100
                   ELSE IF ps_ratio < 15000 THEN 85
                   ELSE IF ps_ratio < 22000 THEN 70
                   ELSE IF ps_ratio < 30000 THEN 55
                   ELSE IF ps_ratio < 40000 THEN 40
                   ELSE 30
        bonus == IF growth_rate > 40000 /\ 22000 <= ps_ratio
                    /\ ps_ratio <= 30000 THEN 25
                 ELSE IF growth_rate > 50000 /\ 30000 <= ps_ratio
                         /\ ps_ratio <= 40000 THEN 30
                 ELSE IF growth_rate > 60000 /\ ps_ratio > 40000 THEN 20
                 ELSE 0
    IN  cap_score(ps_base + bonus, 100)

\* Component 2: Relative Valuation (sector_median_ps * 1.5, * 2.0)
tier3_valuation_rel_val_score(d) ==
    LET ps_ratio == Get(d, "ps_ratio", 999000)
        sector_median_ps == Get(d, "sector_median_ps", ps_ratio)
    IN  IF ps_ratio < sector_median_ps THEN 100
        ELSE IF ps_ratio <= sector_median_ps THEN 75
        ELSE IF 10 * ps_ratio <= 15 * sector_median_ps THEN 60
        ELSE IF ps_ratio <= 2 * sector_median_ps THEN 40
        ELSE 20

\* Component 3: Insider Ownership
tier3_valuation_insider_score(d) ==
    LET insider_ownership_pct == Get(d, "insider_ownership_pct", 0)
        insider_base == IF insider_ownership_pct > 20000 THEN 100
                        ELSE IF insider_ownership_pct >= 15000 THEN 90
                        ELSE IF insider_ownership_pct >= 10000 THEN 75
                        ELSE IF insider_ownership_pct >= 5000 THEN 60
                        ELSE 40
    IN  cap_score(insider_base
                  + (IF Flag(d, "insider_bonuses", "recent_buying") THEN 20 ELSE 0)
                  + (IF insider_ownership_pct > 25000 THEN 15 ELSE 0), 100)

tier3_valuation_w == <<60, 25, 15>>

tier3_valuation(d) ==
    round2(WSum(<<tier3_valuation_ps_score(d),
                  tier3_valuation_rel_val_score(d),
                  tier3_valuation_insider_score(d)>>, tier3_valuation_w), 100, NoTie)

tier3_quality_scale_score(d) ==
    LET revenue_billions == Get(d, "revenue_billions", 0)
    IN  IF revenue_billions > 5000 THEN 100
        ELSE IF revenue_billions >= 3000 THEN 85
        ELSE IF revenue_billions >= 2000 THEN 75
        ELSE IF revenue_billions >= 1000 THEN 60
        ELSE IF revenue_billions >= 500 THEN 45
        ELSE 30

\* Component 2: Profitability Path with its penalties
tier3_quality_profit_score(d) ==
    LET op_margin == Get(d, "operating_margin_pct", 0)
        path_to_profit_months == Get(d, "path_to_profit_months", 999000)
        profit_base ==
            IF Get(d, "is_profitable", FALSE)
            THEN IF op_margin > 15000 THEN 100
                 ELSE IF op_margin >= 10000 THEN 85
                 ELSE IF op_margin >= 5000 THEN 70
                 ELSE 60
            ELSE IF path_to_profit_months < 12000 THEN 50
                 ELSE IF path_to_profit_months < 24000 THEN 40
                 ELSE IF path_to_profit_months < 36000 THEN 30
                 ELSE 15
    IN  floor_score(profit_base
        - (IF Flag(d, "profit_path_penalties", "burn_accelerating") THEN 20 ELSE 0)
        - (IF Flag(d, "profit_path_penalties", "no_guidance") THEN 15 ELSE 0)
        - (IF Flag(d, "profit_path_penalties", "frequent_raises") THEN 10 ELSE 0),
        0)

tier3_quality_gross_score(d) ==
    LET gross_margin == Get(d, "gross_margin_pct", 0)
    IN  IF gross_margin > 75000 THEN 100
        ELSE IF gross_margin >= 65000 THEN 90
        ELSE IF gross_margin >= 55000 THEN 80
        ELSE IF gross_margin >= 45000 THEN 65
        ELSE IF gross_margin >= 35000 THEN 50
        ELSE 30

\* Component 4: Unit Economics: LTV/CAC, else the proxies in priority order
tier3_quality_unit_econ_score(d) ==
    LET ltv_cac_ratio == Get(d, "ltv_cac_ratio", 0)
    IN  IF ltv_cac_ratio > 3000 THEN 100
        ELSE IF ltv_cac_ratio >= 2000 THEN 75
        ELSE IF ltv_cac_ratio >= 1000 THEN 40
        ELSE IF Get(d, "cac_payback_months", 999000) < 12000 THEN 85
        ELSE IF Get(d, "gross_margin_expanding", FALSE) THEN 70
        ELSE IF Get(d, "cohorts_improving", FALSE) THEN 60
        ELSE 40

\* the non-SaaS branch: the list scores of the three proxy scores
tier3_quality_customer_proxies(d) ==
    LET concentration == Get(d, "top_customer_concentration_pct", 100000)
        customer_growth == Get(d, "customer_growth_pct", 0)
        repeat_revenue == Get(d, "repeat_revenue_pct", 0)
    IN  << IF concentration < 10000 THEN 100
           ELSE IF concentration < 20000 THEN 80
           ELSE IF concentration < 30000 THEN 60
           ELSE 30,
           IF customer_growth > 25000 THEN 100
           ELSE IF customer_growth >= 15000 THEN 80
           ELSE IF customer_growth >= 5000 THEN 60
           ELSE 40,
           IF repeat_revenue > 60000 THEN 100
           ELSE IF repeat_revenue >= 40000 THEN 75
           ELSE IF repeat_revenue >= 20000 THEN 50
           ELSE 30 >>

\* Component 5: Customer Quality
tier3_quality_customer_score(d) ==
    IF Get(d, "is_saas", FALSE)
    THEN LET nrr_pct == Get(d, "nrr_pct", 100000)
         IN  IF nrr_pct > 125000 THEN 100
             ELSE IF nrr_pct >= 115000 THEN 85
             ELSE IF nrr_pct >= 105000 THEN 70
             ELSE IF nrr_pct >= 95000 THEN 50
             ELSE 30
    ELSE LET scores == tier3_quality_customer_proxies(d)
         IN  IF scores # <<>>
             THEN Max({scores[i] : i \in 1..Len(scores)})
             ELSE 50

tier3_quality_w == <<18, 20, 22, 20, 20>>

tier3_quality(d) ==
    round2(WSum(<<tier3_quality_scale_score(d),
                  tier3_quality_profit_score(d),
                  tier3_quality_gross_score(d),
                  tier3_quality_unit_econ_score(d),
                  tier3_quality_customer_score(d)>>, tier3_quality_w), 100, NoTie)

tier3_growth_rev_score(d) ==
    LET ttm_growth == Get(d, "revenue_growth_ttm_pct", 0)
    IN  IF ttm_growth > 50000 THEN 100
        ELSE IF ttm_growth >= 40000 THEN 90
        ELSE IF ttm_growth >= 32000 THEN 80
        ELSE IF ttm_growth >= 25000 THEN 70
        ELSE IF ttm_growth >= 20000 THEN 55
        ELSE IF ttm_growth >= 15000 THEN 35
        ELSE 15

\* Component 2: Growth Acceleration.  accel_base is computed in hundredths of
\* a point, 10 points a quarter above 4 being 1 hundredth a thousandth of a
\* quarter; every value the cap lets through is a whole number of points.
tier3_growth_accel_score(d) ==
    LET quarters_accelerating == Get(d, "quarters_accelerating", 0)
        accel_base ==
            IF quarters_accelerating >= 4000
            THEN 10000 + (IF quarters_accelerating > 4000
                          THEN quarters_accelerating - 4000 ELSE 0)
            ELSE IF quarters_accelerating = 3000 THEN 9000
            ELSE IF quarters_accelerating = 2000 THEN 7500
            ELSE IF Get(d, "revenue_growth_ttm_pct", 0) >= 30000 THEN 6000
            ELSE 3000
    IN  cap_score(accel_base, 10000) \div 100

\* Component 3: Forward Estimates
tier3_growth_forward_score(d) ==
    LET forward_est == Get(d, "analyst_forward_growth_pct", 0)
        current_growth == Get(d, "revenue_growth_ttm_pct", 0)
        forward_base == IF forward_est > 40000 THEN 100
                        ELSE IF forward_est >= 32000 THEN 85
                        ELSE IF forward_est >= 25000 THEN 70
                        ELSE IF forward_est >= 20000 THEN 55
                        ELSE IF forward_est >= 15000 THEN 40
                        ELSE 20
    IN  cap_score(forward_base
                  + (IF forward_est > current_growth + 8000 THEN 20 ELSE 0),
                  100)

tier3_growth_tam_score(d) ==
    LET tam_billions == Get(d, "tam_billions", 0)
        penetration == Get(d, "market_penetration_pct", 100000)
    IN  IF tam_billions > 75000 /\ penetration < 8000 THEN 100
        ELSE IF tam_billions >= 50000 /\ penetration < 12000 THEN 85
        ELSE IF tam_billions >= 30000 /\ penetration < 15000 THEN 70
        ELSE IF tam_billions >= 15000 /\ penetration < 20000 THEN 55
        ELSE 35

\* Component 5: Growth Driver Diversity
tier3_growth_drivers_score(d) ==
    cap_score(50
        + (IF Flag(d, "growth_driver_bonuses", "multiple_segments_25plus") THEN 30 ELSE 0)
        + (IF Flag(d, "growth_driver_bonuses", "geographic_expansion") THEN 20 ELSE 0)
        + (IF Flag(d, "growth_driver_bonuses", "new_product_launches") THEN 20 ELSE 0)
        + (IF Flag(d, "growth_driver_bonuses", "platform_effects") THEN 20 ELSE 0)
        + (IF Flag(d, "growth_driver_bonuses", "viral_network") THEN 15 ELSE 0),
        100)

tier3_growth_cyclical_score(d) ==
    LET business_type == Get(d, "business_type", "software")
    IN  IF business_type \in {"software", "saas", "non_cyclical"} THEN 100
        ELSE IF business_type = "early_mid_cycle_secular" THEN 85
        ELSE IF business_type = "mid_cycle" THEN 70
        ELSE IF business_type = "late_cycle" THEN 45
        ELSE 25

tier3_growth_w == <<28, 18, 18, 18, 12, 6>>

tier3_growth(d) ==
    round2(WSum(<<tier3_growth_rev_score(d),
                  tier3_growth_accel_score(d),
                  tier3_growth_forward_score(d),
                  tier3_growth_tam_score(d),
                  tier3_growth_drivers_score(d),
                  tier3_growth_cyclical_score(d)>>, tier3_growth_w), 100, NoTie)

tier3_momentum_return_score(d) ==
    LET return_6m == Get(d, "return_6m_pct", 0)
    IN  IF return_6m > 70000 THEN 100
        ELSE IF return_6m >= 50000 THEN 90
        ELSE IF return_6m >= 30000 THEN 75
        ELSE IF return_6m >= 15000 THEN 55
        ELSE IF return_6m >= 0 THEN 40
        ELSE 60

\* Component 2: Relative Strength vs IWM with the analyst bonuses
tier3_momentum_rel_score(d) ==
    LET rel_perf == Get(d, "return_6m_pct", 0) - Get(d, "iwm_return_6m_pct", 0)
        rel_base == IF rel_perf > 20000 THEN 100
                    ELSE IF rel_perf >= 12000 THEN 80
                    ELSE IF rel_perf >= 5000 THEN 60
                    ELSE IF rel_perf >= 0 THEN 45
                    ELSE 30
    IN  cap_score(rel_base
        + (IF Flag(d, "analyst_momentum_bonuses", "upgrades_3plus") THEN 15 ELSE 0)
        + (IF Flag(d, "analyst_momentum_bonuses", "price_target_raises") THEN 10 ELSE 0),
        100)

\* Component 3: Volume & Sentiment
tier3_momentum_sentiment_score(d) ==
    LET volume_change_pct == Get(d, "volume_change_pct", 0)
    IN  cap_score(50
        + (IF volume_change_pct > 50000 THEN 25
           ELSE IF volume_change_pct >= 25000 THEN 15
           ELSE IF volume_change_pct < -25000 THEN -15
           ELSE 0)
        + (IF Get(d, "sentiment_positive", FALSE) THEN 15 ELSE 0)
        + (IF Flag(d, "analyst_momentum_bonuses", "analyst_momentum") THEN 15 ELSE 0),
        100)

tier3_momentum_w == <<40, 35, 25>>

tier3_momentum(d) ==
    round2(WSum(<<tier3_momentum_return_score(d),
                  tier3_momentum_rel_score(d),
                  tier3_momentum_sentiment_score(d)>>, tier3_momentum_w), 100, NoTie)

tier3_si_market_pos_score(d) ==
    LET growth_delta == Get(d, "revenue_growth_ttm_pct", 0)
                        - Get(d, "sector_avg_growth_pct", 0)
    IN  IF growth_delta >= 10000 THEN 100
        ELSE IF growth_delta >= 5000 THEN 80
        ELSE IF growth_delta >= 0 THEN 60
        ELSE 30

tier3_si_op_lev_score(d) ==
    LET margin_expansion_bps == Get(d, "margin_trend_bps_per_year", 0)
    IN  IF margin_expansion_bps > 400000 THEN 100
        ELSE IF margin_expansion_bps >= 250000 THEN 85
        ELSE IF margin_expansion_bps >= 150000 THEN 70
        ELSE IF margin_expansion_bps >= 100000 THEN 55
        ELSE 35

\* Component 3: Moat Formation
tier3_si_moat_score(d) ==
    cap_score(50
        + (IF Flag(d, "moat_formation_bonuses", "network_effects") THEN 30 ELSE 0)
        + (IF Flag(d, "moat_formation_bonuses", "switching_costs") THEN 25 ELSE 0)
        + (IF Flag(d, "moat_formation_bonuses", "scale_advantages") THEN 20 ELSE 0)
        + (IF Flag(d, "moat_formation_bonuses", "data_ip_moat") THEN 20 ELSE 0)
        + (IF Flag(d, "moat_formation_bonuses", "brand_emerging") THEN 15 ELSE 0),
        100)

\* Component 4: Partnerships
tier3_si_partnership_score(d) ==
    cap_score(50
        + (IF Flag(d, "partnership_bonuses", "major_tech_partners") THEN 30 ELSE 0)
        + (IF Flag(d, "partnership_bonuses", "gov_enterprise") THEN 25 ELSE 0)
        + (IF Flag(d, "partnership_bonuses", "critical_integrations") THEN 20 ELSE 0)
        + (IF Flag(d, "partnership_bonuses", "ecosystem_role") THEN 15 ELSE 0),
        100)

tier3_scale_inflection_w == <<30, 30, 25, 15>>

tier3_scale_inflection(d) ==
    round2(WSum(<<tier3_si_market_pos_score(d),
                  tier3_si_op_lev_score(d),
                  tier3_si_moat_score(d),
                  tier3_si_partnership_score(d)>>, tier3_scale_inflection_w),
           100, NoTie)

\* the tier 3 composite with a negative Valuation weight (the five still sum
\* to 1.0)
tier3_composite_w_neg == <<-15, 52, 38, 15, 10>>

tier3_composite_w == <<15, 22, 38, 15, 10>>

tier3_components(d) ==
    <<tier3_valuation(d), tier3_quality(d), tier3_growth(d),
      tier3_momentum(d), tier3_scale_inflection(d)>>

calculate_tier3_composite(d, up) ==
    LET components == tier3_components(d)
    IN  [composite |-> round2(WSum(components, tier3_composite_w), 10000,
                              up.composite),
         components |-> components]

-----------------------------------------------------------------------------
(* TIER 4: SMALL-CAP MOONSHOTS                                             *)

\* Component 1: Price-to-Sales with the growth context bonus
tier4_valuation_ps_score(d) ==
    LET ps_ratio == Get(d, "ps_ratio", 999000)
        growth_rate == Get(d, "revenue_growth_ttm_pct", 0)
        ps_base == IF ps_ratio < 12000 THEN 100
                   ELSE IF ps_ratio < 20000 THEN 85
                   ELSE IF ps_ratio < 35000 THEN 70
                   ELSE IF ps_ratio < 50000 THEN 50
                   ELSE IF ps_ratio < 75000 THEN 35
                   ELSE 25
        bonus == IF growth_rate > 75000 /\ 35000 <= ps_ratio
                    /\ ps_ratio <= 50000 THEN 35
                 ELSE IF growth_rate > 100000 /\ 50000 <= ps_ratio
                         /\ ps_ratio <= 75000 THEN 30
                 ELSE IF growth_rate > 100000 /\ ps_ratio > 75000 THEN 25
                 ELSE 0
    IN  cap_score(ps_base + bonus, 100)

\* Component 2: Relative Valuation on ratio_to_sector = ps_ratio /
\* sector_median_ps, which is 1.0 when sector_median_ps is not positive
tier4_valuation_rel_val_score(d) ==
    LET ps_ratio == Get(d, "ps_ratio", 999000)
        sector_median_ps == Get(d, "sector_median_ps", ps_ratio)
        num == IF sector_median_ps > 0 THEN ps_ratio ELSE 1
        den == IF sector_median_ps > 0 THEN sector_median_ps ELSE 1
    IN  IF num < den THEN 100
        ELSE IF num <= den THEN 75
        ELSE IF num <= 2 * den THEN 60
        ELSE IF num <= 3 * den THEN 40
        ELSE 20

\* Component 3: Insider Ownership
tier4_valuation_insider_score(d) ==
    LET insider_pct == Get(d, "insider_ownership_pct", 0)
        insider_base == IF insider_pct > 25000 THEN 100
                        ELSE IF insider_pct >= 20000 THEN 90
                        ELSE IF insider_pct >= 15000 THEN 80
                        ELSE IF insider_pct >= 10000 THEN 65
                        ELSE IF insider_pct >= 5000 THEN 45
                        ELSE 30
    IN  cap_score(insider_base
                  + (IF Flag(d, "insider_bonuses", "recent_buying") THEN 20 ELSE 0)
                  + (IF insider_pct > 30000 THEN 20 ELSE 0), 100)

tier4_valuation_w == <<60, 25, 15>>

tier4_valuation(d) ==
    round2(WSum(<<tier4_valuation_ps_score(d),
                  tier4_valuation_rel_val_score(d),
                  tier4_valuation_insider_score(d)>>, tier4_valuation_w), 100, NoTie)

tier4_quality_gross_score(d) ==
    LET gross_margin == Get(d, "gross_margin_pct", 0)
    IN  IF gross_margin > 70000 THEN 100
        ELSE IF gross_margin >= 60000 THEN 85
        ELSE IF gross_margin >= 50000 THEN 70
        ELSE IF gross_margin >= 40000 THEN 50
        ELSE IF gross_margin >= 30000 THEN 35
        ELSE 20

\* the revenue quality bonuses and penalties summed onto the base, before
\* the floor and the cap
tier4_quality_rev_quality_sum(d) ==
    LET recurring_pct == Get(d, "recurring_revenue_pct", 0)
        nrr_pct == Get(d, "nrr_pct", 100000)
        top_customer_pct == Get(d, "top_customer_concentration_pct", 100000)
        top_3_customers_pct == Get(d, "top_3_concentration_pct", 100000)
    IN  50 + (IF recurring_pct > 70000 THEN 30
              ELSE IF recurring_pct >= 50000 THEN 20 ELSE 0)
           + (IF nrr_pct > 110000 THEN 20 ELSE 0)
           + (IF top_customer_pct < 10000 THEN 15
              ELSE IF top_customer_pct > 50000 THEN -35 ELSE 0)
           + (IF top_3_customers_pct < 25000 THEN 5
              ELSE IF top_3_customers_pct > 30000 THEN -20 ELSE 0)

\* the revenue quality score without the floor at 0
tier4_quality_rev_quality_nofloor(d) ==
    cap_score(tier4_quality_rev_quality_sum(d), 100)

\* Component 2: Revenue Quality
tier4_quality_rev_quality_score(d) ==
    cap_score(floor_score(tier4_quality_rev_quality_sum(d), 0), 100)

\* Component 3: Unit Economics: LTV/CAC, else the proxies in priority order
tier4_quality_unit_econ_score(d) ==
    LET ltv_cac == Get(d, "ltv_cac_ratio", 0)
    IN  IF ltv_cac > 3000 THEN 100
        ELSE IF ltv_cac >= 2000 THEN 75
        ELSE IF ltv_cac >= 1000 THEN 40
        ELSE IF Get(d, "cac_payback_months", 999000) < 12000 THEN 85
        ELSE IF Get(d, "gross_margin_expanding", FALSE) THEN 70
        ELSE IF Get(d, "cohorts_improving", FALSE) THEN 60
        ELSE 40

\* Component 4: Path to Profitability with its penalties
tier4_quality_profit_path_score(d) ==
    LET path_months == Get(d, "path_to_profit_months", 999000)
        profit_path_base == IF Get(d, "is_profitable", FALSE) THEN 100
                            ELSE IF path_months < 12000 THEN 80
                            ELSE IF path_months < 24000 THEN 60
                            ELSE IF path_months < 36000 THEN 40
                            ELSE IF path_months < 48000 THEN 25
                            ELSE 15
    IN  floor_score(profit_path_base
        - (IF Flag(d, "profit_path_penalties", "burn_accelerating") THEN 25 ELSE 0)
        - (IF Flag(d, "profit_path_penalties", "no_guidance") THEN 15 ELSE 0)
        - (IF Flag(d, "profit_path_penalties", "frequent_raises") THEN 10 ELSE 0),
        0)

tier4_quality_w == <<30, 30, 20, 20>>

tier4_quality(d) ==
    round2(WSum(<<tier4_quality_gross_score(d),
                  tier4_quality_rev_quality_score(d),
                  tier4_quality_unit_econ_score(d),
                  tier4_quality_profit_path_score(d)>>, tier4_quality_w), 100, NoTie)

tier4_growth_rev_score(d) ==
    LET ttm_growth == Get(d, "revenue_growth_ttm_pct", 0)
    IN  IF ttm_growth > 100000 THEN 100
        ELSE IF ttm_growth >= 75000 THEN 95
        ELSE IF ttm_growth >= 55000 THEN 85
        ELSE IF ttm_growth >= 40000 THEN 70
        ELSE IF ttm_growth >= 30000 THEN 50
        ELSE IF ttm_growth >= 20000 THEN 30
        ELSE 15

\* Component 2: Growth Consistency.  consist_base is computed in hundredths
\* of a point, 10 points a quarter above 5 being 1 hundredth a thousandth of
\* a quarter; every value the cap lets through is a whole number of points.
tier4_growth_consist_score(d) ==
    LET quarters_accel == Get(d, "quarters_accelerating", 0)
        consist_base ==
            IF quarters_accel >= 5000 THEN 10000 + (quarters_accel - 5000)
            ELSE IF quarters_accel = 4000 THEN 9000
            ELSE IF quarters_accel = 3000 THEN 8000
            ELSE IF Get(d, "revenue_growth_ttm_pct", 0) >= 40000 THEN 7000
            ELSE 3000
    IN  cap_score(consist_base, 10000) \div 100

tier4_growth_tam_score(d) ==
    LET tam_billions == Get(d, "tam_billions", 0)
    IN  IF tam_billions > 150000 THEN 100
        ELSE IF tam_billions >= 100000 THEN 90
        ELSE IF tam_billions >= 50000 THEN 75
        ELSE IF tam_billions >= 25000 THEN 55
        ELSE IF tam_billions >= 10000 THEN 35
        ELSE 20

tier4_growth_penetration_score(d) ==
    LET penetration_pct == Get(d, "market_penetration_pct", 100000)
    IN  IF penetration_pct < 3000 THEN 100
        ELSE IF penetration_pct < 5000 THEN 90
        ELSE IF penetration_pct < 10000 THEN 75
        ELSE IF penetration_pct < 15000 THEN 55
        ELSE 35

\* Component 5: Growth Driver Strength
tier4_growth_drivers_score(d) ==
    cap_score(50
        + (IF Flag(d, "growth_driver_bonuses", "network_effects") THEN 25 ELSE 0)
        + (IF Flag(d, "growth_driver_bonuses", "viral_growth_50plus") THEN 25 ELSE 0)
        + (IF Flag(d, "growth_driver_bonuses", "platform_forming") THEN 20 ELSE 0)
        + (IF Flag(d, "growth_driver_bonuses", "multiple_streams_35plus") THEN 20 ELSE 0)
        + (IF Flag(d, "growth_driver_bonuses", "gov_enterprise_accelerating") THEN 20 ELSE 0),
        100)

\* Component 6: Forward Estimates
tier4_growth_forward_score(d) ==
    LET forward_est == Get(d, "analyst_forward_growth_pct", 0)
        current_growth == Get(d, "revenue_growth_ttm_pct", 0)
        forward_base == IF forward_est > 60000 THEN 100
                        ELSE IF forward_est >= 50000 THEN 90
                        ELSE IF forward_est >= 40000 THEN 80
                        ELSE IF forward_est >= 30000 THEN 65
                        ELSE IF forward_est >= 20000 THEN 45
                        ELSE 25
    IN  cap_score(forward_base
                  + (IF forward_est > current_growth + 12000 THEN 20 ELSE 0),
                  100)

\* Component 7: Catalyst Pipeline
tier4_growth_catalyst_score(d) ==
    cap_score(50
        + (IF Flag(d, "catalyst_bonuses", "major_launch_6mo") THEN 30 ELSE 0)
        + (IF Flag(d, "catalyst_bonuses", "market_expansion") THEN 25 ELSE 0)
        + (IF Flag(d, "catalyst_bonuses", "partnership_expected") THEN 25 ELSE 0)
        + (IF Flag(d, "catalyst_bonuses", "regulatory_milestone") THEN 30 ELSE 0)
        + (IF Flag(d, "catalyst_bonuses", "index_inclusion") THEN 20 ELSE 0),
        100)

\* the tier 4 growth weights with the catalyst weight at 0.04
tier4_growth_w_short == <<28, 15, 15, 10, 15, 12, 4>>

tier4_growth_w == <<28, 15, 15, 10, 15, 12, 5>>

tier4_growth(d) ==
    round2(WSum(<<tier4_growth_rev_score(d),
                  tier4_growth_consist_score(d),
                  tier4_growth_tam_score(d),
                  tier4_growth_penetration_score(d),
                  tier4_growth_drivers_score(d),
                  tier4_growth_forward_score(d),
                  tier4_growth_catalyst_score(d)>>, tier4_growth_w), 100, NoTie)

tier4_momentum_return_score(d) ==
    LET return_6m == Get(d, "return_6m_pct", 0)
    IN  IF return_6m > 100000 THEN 100
        ELSE IF return_6m >= 70000 THEN 95
        ELSE IF return_6m >= 50000 THEN 85
        ELSE IF return_6m >= 30000 THEN 70
        ELSE IF return_6m >= 15000 THEN 50
        ELSE IF return_6m >= 0 THEN 35
        ELSE 60

tier4_momentum_rel_score(d) ==
    LET rel_perf == Get(d, "return_6m_pct", 0) - Get(d, "iwo_return_6m_pct", 0)
    IN  IF rel_perf > 30000 THEN 100
        ELSE IF rel_perf >= 20000 THEN 85
        ELSE IF rel_perf >= 10000 THEN 65
        ELSE IF rel_perf >= 0 THEN 45
        ELSE 25

\* the sentiment bonuses and penalties summed onto the base, before the floor
\* and the cap
tier4_momentum_sentiment_sum(d) ==
    50 + (IF Flag(d, "sentiment_bonuses", "rising_mentions_bullish") THEN 25 ELSE 0)
       + (IF Flag(d, "sentiment_bonuses", "positive_reddit") THEN 20 ELSE 0)
       + (IF Flag(d, "sentiment_bonuses", "analyst_upgrades_3plus") THEN 25 ELSE 0)
       + (IF Flag(d, "sentiment_bonuses", "target_increases") THEN 20 ELSE 0)
       + (IF Flag(d, "sentiment_bonuses", "positive_media") THEN 15 ELSE 0)
       - (IF Flag(d, "sentiment_penalties", "negative_trending") THEN 25 ELSE 0)
       - (IF Flag(d, "sentiment_penalties", "unsustainable_meme") THEN 20 ELSE 0)

\* Component 3: Social Sentiment
tier4_momentum_sentiment_score(d) ==
    cap_score(floor_score(tier4_momentum_sentiment_sum(d), 0), 100)

tier4_momentum_volume_score(d) ==
    LET volume_change_30d_vs_90d == Get(d, "volume_change_pct", 0)
    IN  IF volume_change_30d_vs_90d > 75000 THEN 100
        ELSE IF volume_change_30d_vs_90d >= 50000 THEN 85
        ELSE IF volume_change_30d_vs_90d >= 25000 THEN 65
        ELSE IF Abs(volume_change_30d_vs_90d) <= 25000 THEN 50
        ELSE 30

tier4_momentum_w == <<40, 30, 20, 10>>

tier4_momentum(d) ==
    round2(WSum(<<tier4_momentum_return_score(d),
                  tier4_momentum_rel_score(d),
                  tier4_momentum_sentiment_score(d),
                  tier4_momentum_volume_score(d)>>, tier4_momentum_w), 100, NoTie)

tier4_disruption_disruption_score(d) ==
    LET disruption_type == Get(d, "disruption_type", "incremental")
    IN  IF disruption_type = "attacking_100b_plus" THEN 100
        ELSE IF disruption_type = "creating_new_category" THEN 95
        ELSE IF disruption_type = "significant_share_gains" THEN 85
        ELSE IF disruption_type = "niche_10_50b" THEN 70
        ELSE 50

\* Component 2: Technology Moat
tier4_disruption_tech_moat_score(d) ==
    cap_score(50
        + (IF Flag(d, "tech_moat_bonuses", "proprietary_ai_ml") THEN 30 ELSE 0)
        + (IF Flag(d, "tech_moat_bonuses", "strong_patents") THEN 25 ELSE 0)
        + (IF Flag(d, "tech_moat_bonuses", "unique_data_assets") THEN 25 ELSE 0)
        + (IF Flag(d, "tech_moat_bonuses", "first_mover_scale") THEN 20 ELSE 0)
        + (IF Flag(d, "tech_moat_bonuses", "unique_supply_chain") THEN 25 ELSE 0),
        100)

tier4_disruption_comp_dyn_score(d) ==
    LET market_structure == Get(d, "market_structure", "highly_competitive")
    IN  IF market_structure = "winner_take_most" THEN 100
        ELSE IF market_structure = "oligopoly_forming" THEN 80
        ELSE IF market_structure = "crowded_differentiated" THEN 60
        ELSE IF market_structure = "highly_competitive" THEN 40
        ELSE 20

\* Component 4: Catalyst Pipeline
tier4_disruption_catalyst_score(d) ==
    cap_score(50
        + (IF Flag(d, "catalyst_bonuses", "major_launch_6mo") THEN 30 ELSE 0)
        + (IF Flag(d, "catalyst_bonuses", "partnership_expected") THEN 25 ELSE 0)
        + (IF Flag(d, "catalyst_bonuses", "market_expansion") THEN 25 ELSE 0)
        + (IF Flag(d, "catalyst_bonuses", "regulatory_approval") THEN 30 ELSE 0)
        + (IF Flag(d, "catalyst_bonuses", "acquisition_target") THEN 20 ELSE 0),
        100)

tier4_disruption_w == <<35, 25, 25, 15>>

tier4_disruption(d) ==
    round2(WSum(<<tier4_disruption_disruption_score(d),
                  tier4_disruption_tech_moat_score(d),
                  tier4_disruption_comp_dyn_score(d),
                  tier4_disruption_catalyst_score(d)>>, tier4_disruption_w), 100, NoTie)

\* the tier 4 composite weights with Momentum and Disruption exchanged
tier4_composite_w_swapped == <<10, 15, 40, 20, 15>>

tier4_composite_w == <<10, 15, 40, 15, 20>>

tier4_components(d) ==
    <<tier4_valuation(d), tier4_quality(d), tier4_growth(d),
      tier4_momentum(d), tier4_disruption(d)>>

calculate_tier4_composite(d, up) ==
    LET components == tier4_components(d)
    IN  [composite |-> round2(WSum(components, tier4_composite_w), 10000,
                              up.composite),
         components |-> components]

-----------------------------------------------------------------------------
(* MAIN CALCULATION METHOD                                                 *)

\* the keys of the components mapping a tier's composite returns
component_names(tier) ==
    <<"Valuation", "Quality", "Growth", "Momentum",
      CASE tier = 1 -> "Financial_Health"
        [] tier = 2 -> "Scale_Moat"
        [] tier = 3 -> "Scale_Inflection"
        [] tier = 4 -> "Disruption">>

\* the if/elif on the tier: the tier's composite and component breakdown
tier_composite(tier, d, up) ==
    IF tier = 1 THEN calculate_tier1_composite(d, up)
    ELSE IF tier = 2 THEN calculate_tier2_composite(d, up)
    ELSE IF tier = 3 THEN calculate_tier3_composite(d, up)
    ELSE calculate_tier4_composite(d, up)

\* rating_of with > in place of >= at 70: a composite of 70.00 rates Hold
rating_of_gt(composite) ==
    IF composite >= 8000 THEN "Strong Buy"
    ELSE IF composite > 7000 THEN "Buy"
    ELSE IF composite >= 6000 THEN "Hold"
    ELSE IF composite >= 5000 THEN "Reduce"
    ELSE "Sell"

\* Determine rating (the composite in hundredths of a point)
rating_of(composite) ==
    IF composite >= 8000 THEN "Strong Buy"
    ELSE IF composite >= 7000 THEN "Buy"
    ELSE IF composite >= 6000 THEN "Hold"
    ELSE IF composite >= 5000 THEN "Reduce"
    ELSE "Sell"

\* The outcome of calculate_score(ticker, data): the returned dict, or the
\* exception that calculate_position_size lets through.
calculate_score(ticker, d, up) ==
    LET market_cap_billions == Get(d, "market_cap_billions", 0)
        tier == determine_tier(market_cap_billions)
        pair == tier_composite(tier, d, up)
        composite == pair.composite
        scores == pair.components
        names == component_names(tier)
        beta == Get(d, "beta", 1000)
        position_size ==
            calculate_position_size(tier, composite, beta, up.position)
    IN  IF position_size.raised
        THEN [kind |-> "raised", error |-> position_size.error]
        ELSE [kind |-> "score",
              ticker |-> ticker,
              tier |-> tier,
              tier_name |-> TIER_DEFINITIONS[tier].name,
              market_cap_billions |-> market_cap_billions,
              composite_score |-> composite,
              rating |-> rating_of(composite),
              stars |-> "",
              position_size_pct |-> position_size.position,
              min_score_for_tier |-> TIER_DEFINITIONS[tier].min_score,
              score_buffer |->
                  composite - 100 * TIER_DEFINITIONS[tier].min_score,
              components |->
                  [n \in {names[i] : i \in 1..5} |->
                      scores[CHOOSE i \in 1..5 : names[i] = n]],
              beta |-> beta]

-----------------------------------------------------------------------------
(* The 3-tier variant, stock_rating_spreadsheet/enhanced_stock_scorer.py:  *)
(* its position sizing.  A position is the fraction num / den of a         *)
(* hundredth of a percent; the score is in hundredths of a point, beta in  *)
(* thousandths, base and maximum in tenths of a percent, the risk factor   *)
(* in tenths.                                                              *)

\* (base * (score / 100)) / (1 + (beta - 1) * risk_factor)
three_tier_quotient(base, risk_factor, score, beta) ==
    [num |-> 10 * base * score,
     den |-> 10000 + (beta - 1000) * risk_factor]

\* min(position, maximum) of the quotient p, den # 0
three_tier_min(p, maximum) ==
    IF \/ p.den > 0 /\ p.num > 10 * maximum * p.den
       \/ p.den < 0 /\ p.num < 10 * maximum * p.den
    THEN [num |-> 10 * maximum, den |-> 1]
    ELSE p

\* the Tier 3 position without the min(position, 3.0)
Tier3Scorer_position_uncapped(composite, beta) ==
    LET p == three_tier_quotient(30, 15, composite, beta)
    IN  IF p.den = 0
        THEN [raised |-> TRUE, error |-> "ZeroDivisionError", num |-> 0, den |-> 1]
        ELSE [raised |-> FALSE, error |-> "", num |-> p.num, den |-> p.den]

\* Tier1Scorer.calculate_position_size: the quotient capped at 15.0, or the
\* exception the division raises
Tier1Scorer_calculate_position_size(score, beta, base_allocation, risk_factor) ==
    LET p == three_tier_quotient(base_allocation, risk_factor, score, beta)
        position == three_tier_min(p, 150)
    IN  IF p.den = 0
        THEN [raised |-> TRUE, error |-> "ZeroDivisionError", num |-> 0, den |-> 1]
        ELSE [raised |-> FALSE, error |-> "",
              num |-> position.num, den |-> position.den]

\* Position sizing for Tier 2 (base 6%, risk factor 1.2), 8% max
Tier2Scorer_position(composite, beta) ==
    LET p == three_tier_quotient(60, 12, composite, beta)
        position == three_tier_min(p, 80)
    IN  IF p.den = 0
        THEN [raised |-> TRUE, error |-> "ZeroDivisionError", num |-> 0, den |-> 1]
        ELSE [raised |-> FALSE, error |-> "",
              num |-> position.num, den |-> position.den]

\* Position sizing for Tier 3 (base 3%, risk factor 1.5), 3% max
Tier3Scorer_position(composite, beta) ==
    LET p == three_tier_quotient(30, 15, composite, beta)
        position == three_tier_min(p, 30)
    IN  IF p.den = 0
        THEN [raised |-> TRUE, error |-> "ZeroDivisionError", num |-> 0, den |-> 1]
        ELSE [raised |-> FALSE, error |-> "",
              num |-> position.num, den |-> position.den]

\* 'target_position_size': round(position, 2) of the scorer of the tier, in
\* hundredths of a percent; Tier1Scorer.calculate_composite_score passes
\* base_allocation=10.0 and risk_factor=0.8
target_position_size(tier, composite, beta, up) ==
    LET position ==
            CASE tier = 1 ->
                   Tier1Scorer_calculate_position_size(composite, beta, 100, 8)
              [] tier = 2 -> Tier2Scorer_position(composite, beta)
              [] tier = 3 -> Tier3Scorer_position(composite, beta)
    IN  IF position.raised
        THEN [raised |-> TRUE, error |-> position.error, position |-> 0]
        ELSE [raised |-> FALSE, error |-> "",
              position |-> RoundFloat(position.num, position.den, up)]

\* googl_data of the example under __main__
googl_data ==
    [market_cap_billions |-> 1800000,
     pe_ratio |-> 22000,
     historical_pe_avg |-> 25000,
     fcf_yield_pct |-> 4170,
     peg_ratio |-> 1400,
     roic_pct |-> 24080,
     operating_margin_pct |-> 32080,
     margin_trend_bps_per_year |-> 150000,
     moat_bonuses |-> {"network_effects", "economies_of_scale"},
     earnings_beat_rate_pct |-> 83300,
     mgmt_bonuses |-> {"consistent_buybacks"},
     cash_conversion_ratio |-> 1250,
     revenue_cagr_3yr_pct |-> 11860,
     revenue_growth_recent_yoy_pct |-> 16000,
     eps_cagr_3yr_pct |-> 15000,
     tam_billions |-> 500000,
     market_share_pct |-> 15000,
     future_growth_bonuses |-> {},
     analyst_forward_growth_pct |-> 12000,
     return_12m_pct |-> 35200,
     spy_return_12m_pct |-> 25000,
     price |-> 140000,
     ma_50 |-> 135000,
     ma_200 |-> 125000,
     net_cash_billions |-> 100000,
     fcf_billions |-> 75000,
     capital_allocation_bonuses |->
         {"buybacks_rnd_gt_10pct", "value_creating_ma"},
     beta |-> 1100]

\* pltr_data of src/example_4tier_scoring.py, the PLTR (Tier 2) example
pltr_data ==
    [market_cap_billions |-> 65000, beta |-> 1500, is_profitable |-> TRUE,
     forward_pe |-> 45000, ps_ratio |-> 22000, peg_ratio |-> 1800,
     revenue_growth_recent_yoy_pct |-> 30000, sector_median_pe |-> 35000,
     revenue_billions |-> 2500, is_gaap_profitable |-> TRUE,
     operating_margin_pct |-> 12000, gross_margin_pct |-> 80000,
     margin_trend_bps_per_year |-> 350000, is_saas |-> TRUE,
     nrr_pct |-> 125000, dollar_based_retention_pct |-> 108000,
     market_position_bonuses |-> {"top_1_or_2", "gaining_share"},
     revenue_growth_ttm_pct |-> 30000, years_of_25plus_growth |-> 3000,
     is_accelerating |-> FALSE, analyst_forward_growth_pct |-> 28000,
     eps_growth_pct |-> 42000, tam_billions |-> 119000,
     market_penetration_pct |-> 2100,
     growth_driver_bonuses |->
         {"multiple_segments_20plus", "geographic_expansion"},
     business_type |-> "software", return_6m_pct |-> 42000,
     qqq_return_6m_pct |-> 30000, price |-> 28000, ma_50 |-> 26000,
     ma_200 |-> 24000, institutional_bonuses |-> {"increasing_ownership"},
     analyst_momentum_bonuses |-> {"multiple_upgrades"},
     sector_avg_growth_pct |-> 18000,
     moat_development_bonuses |-> {"network_effects", "switching_costs"},
     partnership_bonuses |-> {"gov_contracts", "major_tech_partners"}]

\* crwd_data of src/example_4tier_scoring.py, the CRWD (Tier 3) example
crwd_data ==
    [market_cap_billions |-> 45000, beta |-> 1800, ps_ratio |-> 28000,
     revenue_growth_ttm_pct |-> 38000, sector_median_ps |-> 20000,
     insider_ownership_pct |-> 18000, insider_bonuses |-> {},
     revenue_billions |-> 3200, is_profitable |-> TRUE,
     operating_margin_pct |-> 13000, path_to_profit_months |-> 0,
     profit_path_penalties |-> {}, gross_margin_pct |-> 72000,
     ltv_cac_ratio |-> 2800, is_saas |-> TRUE, nrr_pct |-> 118000,
     quarters_accelerating |-> 5000, analyst_forward_growth_pct |-> 35000,
     tam_billions |-> 60000, market_penetration_pct |-> 5300,
     growth_driver_bonuses |->
         {"multiple_segments_25plus", "platform_effects"},
     business_type |-> "software", return_6m_pct |-> 55000,
     iwm_return_6m_pct |-> 38000,
     analyst_momentum_bonuses |-> {"upgrades_3plus", "price_target_raises"},
     volume_change_pct |-> 40000, sentiment_positive |-> TRUE,
     sector_avg_growth_pct |-> 22000, margin_trend_bps_per_year |-> 350000,
     moat_formation_bonuses |-> {"network_effects", "switching_costs"},
     partnership_bonuses |-> {"major_tech_partners", "gov_enterprise"}]

\* rklb_data of src/example_4tier_scoring.py, the RKLB (Tier 4) example
rklb_data ==
    [market_cap_billions |-> 4500, beta |-> 2400, ps_ratio |-> 45000,
     revenue_growth_ttm_pct |-> 85000, sector_median_ps |-> 25000,
     insider_ownership_pct |-> 22000, insider_bonuses |-> {"recent_buying"},
     gross_margin_pct |-> 65000, recurring_revenue_pct |-> 65000,
     nrr_pct |-> 112000, top_customer_concentration_pct |-> 15000,
     top_3_concentration_pct |-> 28000, ltv_cac_ratio |-> 2500,
     is_profitable |-> FALSE, path_to_profit_months |-> 18000,
     profit_path_penalties |-> {}, quarters_accelerating |-> 6000,
     tam_billions |-> 350000, market_penetration_pct |-> 1200,
     growth_driver_bonuses |->
         {"platform_forming", "gov_enterprise_accelerating"},
     analyst_forward_growth_pct |-> 75000,
     catalyst_bonuses |-> {"major_launch_6mo", "partnership_expected"},
     return_6m_pct |-> 95000, iwo_return_6m_pct |-> 45000,
     sentiment_bonuses |->
         {"rising_mentions_bullish", "analyst_upgrades_3plus"},
     sentiment_penalties |-> {}, volume_change_pct |-> 80000,
     disruption_type |-> "attacking_100b_plus",
     tech_moat_bonuses |-> {"unique_supply_chain", "first_mover_scale"},
     market_structure |-> "oligopoly_forming"]

\* the four example records
Examples == {googl_data, pltr_data, crwd_data, rklb_data}

\* the record d with the fields of the record o set to o's values
Override(d, o) == o @@ d

\* Records whose composite sits on a rating threshold (80, 70, 60, 50) or
\* one hundredth under it, none of them on a rounding tie.
rating_cases ==
    {Override(crwd_data,
         [partnership_bonuses |-> {"major_tech_partners"},
          analyst_forward_growth_pct |-> 10000]),
     Override(crwd_data,
         [revenue_growth_ttm_pct |-> 20000, tam_billions |-> 30000]),
     Override(crwd_data,
         [gross_margin_pct |-> 35000, is_profitable |-> FALSE,
          is_saas |-> TRUE, analyst_forward_growth_pct |-> 10000,
          business_type |-> "early_mid_cycle_secular",
          quarters_accelerating |-> 0, ps_ratio |-> 41000]),
     Override(crwd_data,
         [quarters_accelerating |-> 0, is_saas |-> FALSE,
          revenue_growth_ttm_pct |-> -10000]),
     [market_cap_billions |-> 10000, path_to_profit_months |-> 12000,
      tam_billions |-> 75000, analyst_forward_growth_pct |-> 41000,
      revenue_growth_ttm_pct |-> 61000, customer_growth_pct |-> 26000],
     [market_cap_billions |-> 10000, return_6m_pct |-> 50000,
      partnership_bonuses |->
          {"gov_enterprise", "critical_integrations", "ecosystem_role"},
      revenue_growth_ttm_pct |-> 61000, repeat_revenue_pct |-> 40000,
      quarters_accelerating |-> 2000],
     [market_cap_billions |-> 10000, revenue_growth_ttm_pct |-> 61000,
      iwm_return_6m_pct |-> 50000],
     [sentiment_bonuses |->
          {"rising_mentions_bullish", "positive_reddit", "target_increases",
           "positive_media"},
      revenue_growth_ttm_pct |-> 100000,
      analyst_forward_growth_pct |-> 120000]}

-----------------------------------------------------------------------------
(* The input records.  A record is a function from the field names that    *)
(* are present to their values; a field the record lacks is absent.  The   *)
(* values a field is given are the thresholds of the ladders that read it  *)
(* and values on either side of them.                                      *)

\* whole units in thousandths
K(S) == {1000 * x : x \in S}

\* the most quarters of accelerating growth a record reports
MaxQuarters == 6

\* the most fields a record under construction holds, market cap aside
MaxFields == 4

\* the most fields removed from the example record
MaxRemoved == 2

\* beta ranges over -MaxBetaTenths/10 .. MaxBetaTenths/10 in steps of 0.1
MaxBetaTenths == 30

Betas == {100 * i : i \in -MaxBetaTenths..MaxBetaTenths}

PriceFields ==
    [price |-> K({120, 130, 140}), ma_50 |-> K({125, 135}),
     ma_200 |-> K({125, 135})]

\* the fields the tier 1 scorers read
FieldValues1 ==
    [pe_ratio |-> K({-5, 0, 22, 30, 60}),
     historical_pe_avg |-> K({-1, 0, 21, 25}),
     fcf_yield_pct |-> K({-1, 0, 1, 2, 3, 5}) \cup {4170},
     peg_ratio |-> {500, 1000, 1400, 1500, 2000, 2500, 3000},
     roic_pct |-> K({-1, 0, 10, 15, 20, 25}) \cup {24080},
     operating_margin_pct |-> K({-1, 0, 10, 15, 20, 30}),
     margin_trend_bps_per_year |-> K({-1000, -999, -50, 50, 100, 200}),
     moat_bonuses |-> SUBSET {"network_effects", "economies_of_scale",
         "switching_costs", "intangible_assets", "regulatory_moat"},
     earnings_beat_rate_pct |-> K({59, 60, 70, 80, 81}),
     mgmt_bonuses |->
         SUBSET {"smart_ma", "consistent_buybacks", "growing_dividend"},
     cash_conversion_ratio |-> {-100, 0, 800, 1000, 1200},
     revenue_cagr_3yr_pct |-> K({-1, 0, 5, 7, 10, 15, 20}),
     revenue_growth_recent_yoy_pct |-> K({-4, -3, -1, 1, 3, 4, 16}),
     eps_cagr_3yr_pct |-> K({-6, 0, 8, 12, 18, 25, 30}),
     tam_billions |-> K({0, 100, 200, 500, 501}),
     market_share_pct |-> K({15, 20, 30, 40}),
     future_growth_bonuses |->
         SUBSET {"geographic_expansion", "new_product_cycles",
                 "platform_effects", "multiple_growth_vectors"},
     analyst_forward_growth_pct |-> K({-1, 0, 5, 8, 12, 15}),
     return_12m_pct |-> K({-20, -10, 0, 10, 20, 30}),
     spy_return_12m_pct |-> K({-5, 0, 5, 10, 25}),
     net_cash_billions |-> K({-60, -50, 0, 25, 50, 75, 100}),
     fcf_billions |-> K({-1, 0, 5, 10, 15, 20}),
     capital_allocation_bonuses |->
         SUBSET {"buybacks_rnd_gt_10pct", "value_creating_ma",
                 "growing_dividend", "disciplined_deployment"},
     beta |-> Betas] @@ PriceFields

\* the fields one tier 1 sub-score (or a few that share a field) reads
Groups1 ==
    {{"pe_ratio", "historical_pe_avg", "fcf_yield_pct"},
     {"pe_ratio", "historical_pe_avg", "peg_ratio"},
     {"roic_pct", "operating_margin_pct"},
     {"margin_trend_bps_per_year", "cash_conversion_ratio"},
     {"moat_bonuses"},
     {"earnings_beat_rate_pct", "mgmt_bonuses"},
     {"revenue_cagr_3yr_pct", "revenue_growth_recent_yoy_pct",
      "eps_cagr_3yr_pct"},
     {"tam_billions", "market_share_pct", "future_growth_bonuses"},
     {"analyst_forward_growth_pct"},
     {"return_12m_pct", "spy_return_12m_pct"},
     {"price", "ma_50", "ma_200"},
     {"net_cash_billions", "fcf_billions"},
     {"capital_allocation_bonuses"},
     {"beta"}}

\* the fields the tier 2 scorers read
FieldValues2 ==
    [is_profitable |-> BOOLEAN,
     forward_pe |-> K({20, 23, 25, 30, 35, 50, 70}),
     ps_ratio |-> K({5, 8, 12, 18, 25, 35, 40}),
     revenue_growth_recent_yoy_pct |-> K({35, 36, 50, 51}),
     peg_ratio |-> {500, 1000, 1500, 2000, 2500},
     sector_median_pe |-> K({0, 20, 100}),
     revenue_billions |-> K({-1, 0, 2, 3, 5, 7, 10}),
     is_gaap_profitable |-> BOOLEAN,
     operating_margin_pct |-> K({0, 5, 10, 15, 20, 21}),
     path_to_profit_quarters |-> K({3, 4, 8}),
     gross_margin_pct |-> K({30, 35, 45, 55, 65, 75, 76}),
     margin_trend_bps_per_year |->
         K({-101, -100, -51, -50, 50, 100, 200, 300, 301}),
     is_saas |-> BOOLEAN,
     nrr_pct |-> K({80, 90, 110, 120, 130, 131}),
     dollar_based_retention_pct |-> K({105, 106}),
     repeat_revenue_pct |-> K({30, 50, 71}),
     customer_churn_pct |-> K({4, 5, 10}),
     customer_growth_pct |-> K({5, 15, 26}),
     top_customer_concentration_pct |-> K({5, 10, 20}),
     market_position_bonuses |->
         SUBSET {"top_1_or_2", "top_3_to_5", "gaining_share",
                 "category_leader"},
     revenue_growth_ttm_pct |-> K({-10, 12, 15, 18, 20, 22, 28, 35, 36}),
     years_of_25plus_growth |-> K({1, 2, 3}),
     is_accelerating |-> BOOLEAN,
     analyst_forward_growth_pct |-> K({5, 10, 15, 20, 25, 30, 31}),
     eps_growth_pct |-> K({-16, -6, -5, 5, 6, 7, 8, 30}),
     tam_billions |-> K({24, 25, 50, 75, 100, 101}),
     market_penetration_pct |-> K({9, 10, 12, 15, 20}),
     growth_driver_bonuses |->
         SUBSET {"multiple_segments_20plus", "geographic_expansion",
                 "new_products", "platform_effects", "viral_network"},
     business_type |-> {"software", "saas", "early_mid_cycle",
                        "late_cycle_secular", "peak_cycle", "deep_cyclical"},
     return_6m_pct |-> K({-1, 0, 10, 20, 35, 50, 51}),
     institutional_bonuses |->
         SUBSET {"increasing_ownership", "smart_money", "insider_buying"},
     qqq_return_6m_pct |-> K({-8, 9, 12, 36}),
     analyst_momentum_bonuses |->
         SUBSET {"multiple_upgrades", "price_target_increases",
                 "positive_revisions"},
     sector_avg_growth_pct |-> K({-10, 10, 15, 20, 30}),
     moat_development_bonuses |->
         SUBSET {"network_effects", "switching_costs", "economies_of_scale",
                 "brand_ecosystem", "data_ip_moat"},
     partnership_bonuses |->
         SUBSET {"major_tech_partners", "gov_contracts",
                 "ecosystem_integrations", "strategic_customers"},
     beta |-> Betas] @@ PriceFields

Groups2 ==
    {{"is_profitable", "forward_pe", "ps_ratio", "sector_median_pe"},
     {"is_profitable", "ps_ratio", "revenue_growth_recent_yoy_pct"},
     {"peg_ratio", "revenue_billions"},
     {"is_gaap_profitable", "operating_margin_pct",
      "path_to_profit_quarters"},
     {"gross_margin_pct"},
     {"is_saas", "nrr_pct", "dollar_based_retention_pct"},
     {"is_saas", "repeat_revenue_pct", "customer_churn_pct",
      "customer_growth_pct", "top_customer_concentration_pct"},
     {"market_position_bonuses"},
     {"revenue_growth_ttm_pct", "years_of_25plus_growth", "is_accelerating"},
     {"revenue_growth_ttm_pct", "analyst_forward_growth_pct"},
     {"revenue_growth_ttm_pct", "eps_growth_pct"},
     {"tam_billions", "market_penetration_pct"},
     {"growth_driver_bonuses"},
     {"business_type"},
     {"return_6m_pct", "institutional_bonuses"},
     {"return_6m_pct", "qqq_return_6m_pct", "analyst_momentum_bonuses"},
     {"price", "ma_50", "ma_200"},
     {"revenue_growth_ttm_pct", "sector_avg_growth_pct"},
     {"revenue_growth_ttm_pct", "margin_trend_bps_per_year"},
     {"moat_development_bonuses"},
     {"partnership_bonuses"},
     {"beta"}}

\* the fields the tier 3 scorers read
FieldValues3 ==
    [ps_ratio |-> K({9, 10, 15, 22, 30, 40, 41}),
     revenue_growth_ttm_pct |-> K({-10, 15, 20, 25, 30, 32, 40, 41, 50, 51, 61}),
     sector_median_ps |-> K({5, 10, 20, 30}),
     insider_ownership_pct |-> K({4, 5, 10, 15, 20, 21, 25, 26}),
     insider_bonuses |-> SUBSET {"recent_buying"},
     revenue_billions |-> {0, 500, 1000, 2000, 3000, 5000, 5001},
     is_profitable |-> BOOLEAN,
     operating_margin_pct |-> K({0, 5, 10, 15, 16}),
     path_to_profit_months |-> K({11, 12, 24, 36}),
     profit_path_penalties |->
         SUBSET {"burn_accelerating", "no_guidance", "frequent_raises"},
     gross_margin_pct |-> K({30, 35, 45, 55, 65, 75, 76}),
     ltv_cac_ratio |-> {500, 1000, 2000, 3000, 3001},
     cac_payback_months |-> K({11, 12}),
     gross_margin_expanding |-> BOOLEAN,
     cohorts_improving |-> BOOLEAN,
     is_saas |-> BOOLEAN,
     nrr_pct |-> K({90, 95, 105, 115, 125, 126}),
     top_customer_concentration_pct |-> K({5, 10, 20, 30}),
     customer_growth_pct |-> K({5, 15, 25, 26}),
     repeat_revenue_pct |-> K({20, 40, 60, 61}),
     quarters_accelerating |-> K(0..MaxQuarters),
     analyst_forward_growth_pct |-> K({10, 15, 20, 25, 32, 40, 41}),
     tam_billions |-> K({14, 15, 30, 50, 75, 76}),
     market_penetration_pct |-> K({7, 8, 12, 15, 20}),
     growth_driver_bonuses |->
         SUBSET {"multiple_segments_25plus", "geographic_expansion",
                 "new_product_launches", "platform_effects", "viral_network"},
     business_type |-> {"software", "saas", "non_cyclical",
                        "early_mid_cycle_secular", "mid_cycle", "late_cycle",
                        "deep_cyclical"},
     return_6m_pct |-> K({-1, 0, 15, 30, 50, 70, 71}),
     iwm_return_6m_pct |-> K({-5, 10, 18, 50}),
     analyst_momentum_bonuses |->
         SUBSET {"upgrades_3plus", "price_target_raises", "analyst_momentum"},
     volume_change_pct |-> K({-26, -25, 25, 50, 51}),
     sentiment_positive |-> BOOLEAN,
     sector_avg_growth_pct |-> K({5, 10, 15, 20, 45}),
     margin_trend_bps_per_year |-> K({99, 100, 150, 250, 400, 401}),
     moat_formation_bonuses |->
         SUBSET {"network_effects", "switching_costs", "scale_advantages",
                 "data_ip_moat", "brand_emerging"},
     partnership_bonuses |->
         SUBSET {"major_tech_partners", "gov_enterprise",
                 "critical_integrations", "ecosystem_role"},
     beta |-> Betas]

Groups3 ==
    {{"ps_ratio", "revenue_growth_ttm_pct", "sector_median_ps"},
     {"insider_ownership_pct", "insider_bonuses"},
     {"revenue_billions", "gross_margin_pct"},
     {"is_profitable", "operating_margin_pct", "path_to_profit_months",
      "profit_path_penalties"},
     {"ltv_cac_ratio", "cac_payback_months", "gross_margin_expanding",
      "cohorts_improving"},
     {"is_saas", "nrr_pct"},
     {"is_saas", "top_customer_concentration_pct", "customer_growth_pct",
      "repeat_revenue_pct"},
     {"quarters_accelerating", "revenue_growth_ttm_pct"},
     {"analyst_forward_growth_pct", "revenue_growth_ttm_pct"},
     {"tam_billions", "market_penetration_pct"},
     {"growth_driver_bonuses"},
     {"business_type"},
     {"return_6m_pct", "iwm_return_6m_pct", "analyst_momentum_bonuses"},
     {"volume_change_pct", "sentiment_positive", "analyst_momentum_bonuses"},
     {"revenue_growth_ttm_pct", "sector_avg_growth_pct"},
     {"margin_trend_bps_per_year"},
     {"moat_formation_bonuses"},
     {"partnership_bonuses"},
     {"beta"}}

\* the fields the tier 4 scorers read
FieldValues4 ==
    [ps_ratio |-> K({11, 12, 20, 35, 50, 75, 76}),
     revenue_growth_ttm_pct |-> K({-10, 20, 30, 40, 55, 75, 76, 100, 101}),
     sector_median_ps |-> K({-5, 0, 6, 12, 25}),
     insider_ownership_pct |-> K({4, 5, 10, 15, 20, 25, 26, 30, 31}),
     insider_bonuses |-> SUBSET {"recent_buying"},
     gross_margin_pct |-> K({29, 30, 40, 50, 60, 70, 71}),
     recurring_revenue_pct |-> K({49, 50, 70, 71}),
     nrr_pct |-> K({110, 111}),
     top_customer_concentration_pct |-> K({9, 10, 50, 51}),
     top_3_concentration_pct |-> K({24, 25, 30, 31}),
     ltv_cac_ratio |-> {500, 1000, 2000, 3000, 3001},
     cac_payback_months |-> K({11, 12}),
     gross_margin_expanding |-> BOOLEAN,
     cohorts_improving |-> BOOLEAN,
     is_profitable |-> BOOLEAN,
     path_to_profit_months |-> K({11, 12, 24, 36, 48}),
     profit_path_penalties |->
         SUBSET {"burn_accelerating", "no_guidance", "frequent_raises"},
     quarters_accelerating |-> K(0..MaxQuarters),
     tam_billions |-> K({9, 10, 25, 50, 100, 150, 151}),
     market_penetration_pct |-> K({2, 3, 5, 10, 15}),
     growth_driver_bonuses |->
         SUBSET {"network_effects", "viral_growth_50plus", "platform_forming",
                 "multiple_streams_35plus", "gov_enterprise_accelerating"},
     analyst_forward_growth_pct |-> K({19, 20, 30, 40, 50, 60, 61, 120}),
     catalyst_bonuses |->
         SUBSET {"major_launch_6mo", "market_expansion",
                 "partnership_expected", "regulatory_milestone",
                 "index_inclusion", "regulatory_approval",
                 "acquisition_target"},
     return_6m_pct |-> K({-1, 0, 15, 30, 50, 70, 100, 101}),
     iwo_return_6m_pct |-> K({-5, 20, 40, 71}),
     sentiment_bonuses |->
         SUBSET {"rising_mentions_bullish", "positive_reddit",
                 "analyst_upgrades_3plus", "target_increases",
                 "positive_media"},
     sentiment_penalties |-> SUBSET {"negative_trending", "unsustainable_meme"},
     volume_change_pct |-> K({-26, -25, 25, 50, 75, 76}),
     disruption_type |-> {"attacking_100b_plus", "creating_new_category",
                          "significant_share_gains", "niche_10_50b",
                          "incremental"},
     tech_moat_bonuses |->
         SUBSET {"proprietary_ai_ml", "strong_patents", "unique_data_assets",
                 "first_mover_scale", "unique_supply_chain"},
     market_structure |-> {"winner_take_most", "oligopoly_forming",
                           "crowded_differentiated", "highly_competitive",
                           "commodity_risk"},
     beta |-> Betas]

Groups4 ==
    {{"ps_ratio", "revenue_growth_ttm_pct", "sector_median_ps"},
     {"insider_ownership_pct", "insider_bonuses"},
     {"gross_margin_pct"},
     {"recurring_revenue_pct", "nrr_pct", "top_customer_concentration_pct",
      "top_3_concentration_pct"},
     {"ltv_cac_ratio", "cac_payback_months", "gross_margin_expanding",
      "cohorts_improving"},
     {"is_profitable", "path_to_profit_months", "profit_path_penalties"},
     {"quarters_accelerating", "revenue_growth_ttm_pct"},
     {"analyst_forward_growth_pct", "revenue_growth_ttm_pct"},
     {"tam_billions", "market_penetration_pct"},
     {"growth_driver_bonuses"},
     {"catalyst_bonuses"},
     {"return_6m_pct", "iwo_return_6m_pct"},
     {"sentiment_bonuses", "sentiment_penalties"},
     {"volume_change_pct"},
     {"disruption_type", "market_structure"},
     {"tech_moat_bonuses"},
     {"beta"}}

FieldValues(tier) ==
    IF tier = 1 THEN FieldValues1
    ELSE IF tier = 2 THEN FieldValues2
    ELSE IF tier = 3 THEN FieldValues3
    ELSE FieldValues4

Groups(tier) ==
    IF tier = 1 THEN Groups1
    ELSE IF tier = 2 THEN Groups2
    ELSE IF tier = 3 THEN Groups3
    ELSE Groups4

\* the market caps a record under construction is given, one in each of the
\* tiers 1 to 3 (a record without a market cap is in tier 4)
RecordCaps == K({10, 50, 200})

\* the market caps determine_tier is called with
MarketCaps ==
    {-1000, -1, 0, 1, 9999, 10000, 10001, 49990, 49999, 50000, 50001,
     199990, 199999, 200000, 200001, 1800000}
    \cup K(0..250)

\* the scores calculate_position_size is called with, in hundredths
Scores == {500 * i : i \in 0..20} \cup {1, 3353, 8989, 9999}

Tickers == {"GOOGL", "PLTR"}

\* the directions the three roundings of one calculate_score call take on a
\* tie: of the tier 1 valuation score, of the composite, of the position size
Ties == [valuation : BOOLEAN, composite : BOOLEAN, position : BOOLEAN]

\* the tables bracket_score is called with
BracketTables ==
    {tier1_valuation_fcf_brackets, roic_brackets, op_margin_brackets,
     margin_trend_brackets, cash_brackets, rev_brackets, eps_brackets,
     analyst_brackets, SubSeq(return_brackets, 1, Len(return_brackets) - 1),
     rel_brackets, tier1_fh_fcf_brackets, rev_scale_brackets}

\* the values bracket_score is called with on a table: each threshold, its
\* two neighbours and a value far below the table
BracketValues(brackets) ==
    UNION {{brackets[i][1] - 1, brackets[i][1], brackets[i][1] + 1} :
           i \in 1..Len(brackets)}
    \cup {-2000000}

-----------------------------------------------------------------------------
(* The calls.  A caller builds a record and passes it to calculate_score,  *)
(* or calls one of the helpers the engine exposes; pc is "input" until the *)
(* call is made and "done" once result holds its outcome.                  *)

EmptyRecord == [k \in {} |-> 0]

NoResult == [kind |-> "none"]

\* the tier calculate_score assigns to the record d
TierOf(d) == determine_tier(Get(d, "market_cap_billions", 0))

\* the fields of d other than the market cap
OtherFields(d) == DOMAIN d \ {"market_cap_billions"}

Init ==
    /\ data = EmptyRecord
    /\ pc = "input"
    /\ result = NoResult

\* data['market_cap_billions'] = cap, the first field of a record
SetMarketCap(cap) ==
    /\ pc = "input"
    /\ data = EmptyRecord
    /\ data' = ("market_cap_billions" :> cap)
    /\ UNCHANGED <<pc, result>>

\* the fields a caller may still add to the record d: a field its tier
\* reads that shares a sub-score with the fields d already has
Settable(d) ==
    IF Cardinality(OtherFields(d)) < MaxFields
    THEN {key \in DOMAIN FieldValues(TierOf(d)) \ DOMAIN d :
             \E g \in Groups(TierOf(d)) : OtherFields(d) \cup {key} \subseteq g}
    ELSE {}

\* data[key] = value, for a field the record's tier reads
SetField(key, value) ==
    /\ pc = "input"
    /\ key \in Settable(data)
    /\ data' = data @@ (key :> value)
    /\ UNCHANGED <<pc, result>>

\* data = e, an example record or a rating case
LoadExample(e) ==
    /\ pc = "input"
    /\ data = EmptyRecord
    /\ data' = e
    /\ UNCHANGED <<pc, result>>

\* the record d is the example e less at most n of its fields
Reduced(d, e, n) ==
    /\ DOMAIN d \subseteq DOMAIN e
    /\ Cardinality(DOMAIN d) >= Cardinality(DOMAIN e) - n
    /\ \A k \in DOMAIN d : d[k] = e[k]

\* del data[key], on an example record that has lost fewer than MaxRemoved
\* fields
RemoveField(key) ==
    /\ pc = "input"
    /\ key \in DOMAIN data
    /\ \E e \in Examples : Reduced(data, e, MaxRemoved - 1)
    /\ data' = [k \in DOMAIN data \ {key} |-> data[k]]
    /\ UNCHANGED <<pc, result>>

\* a calculate_score that stores the beta it read in the record, as
\* data.setdefault('beta', 1.0) would
Calculate_setdefault(ticker, up) ==
    /\ pc = "input"
    /\ result' = calculate_score(ticker, data, up)
    /\ pc' = "done"
    /\ data' = data @@ ("beta" :> 1000)

\* result = engine.calculate_score(ticker, data)
Calculate(ticker, up) ==
    /\ pc = "input"
    /\ result' = calculate_score(ticker, data, up)
    /\ pc' = "done"
    /\ UNCHANGED data

\* result = engine.calculate_score(ticker, e) on the engine that has just
\* scored an example record, e the next example record (or the same again)
CalculateNext(e, ticker, up) ==
    /\ pc = "done"
    /\ result.kind = "score"
    /\ data \in Examples
    /\ data' = e
    /\ result' = calculate_score(ticker, e, up)
    /\ UNCHANGED pc

\* ScoringEngine.determine_tier(cap), for a cap in MarketCaps
CallDetermineTier ==
    /\ pc = "input"
    /\ data = EmptyRecord
    /\ \E cap \in MarketCaps :
           result' = [kind |-> "tier", market_cap_billions |-> cap,
                      tier |-> determine_tier(cap)]
    /\ pc' = "done"
    /\ UNCHANGED data

\* engine.calculate_position_size(tier, score, beta), for a tier, a score in
\* Scores and a beta in Betas
CallPositionSize ==
    /\ pc = "input"
    /\ data = EmptyRecord
    /\ \E tier \in 1..4, score \in Scores, beta \in Betas, up \in BOOLEAN :
           result' = [kind |-> "position", tier |-> tier, score |-> score,
                      beta |-> beta,
                      outcome |->
                          calculate_position_size(tier, score, beta, up)]
    /\ pc' = "done"
    /\ UNCHANGED data

\* ScoringEngine.bracket_score(value, brackets), for a table in BracketTables
\* and a value in BracketValues(brackets)
CallBracketScore ==
    /\ pc = "input"
    /\ data = EmptyRecord
    /\ \E brackets \in BracketTables :
           \E value \in BracketValues(brackets) :
               result' = [kind |-> "bracket", value |-> value,
                          brackets |-> brackets,
                          score |-> bracket_score(value, brackets)]
    /\ pc' = "done"
    /\ UNCHANGED data

\* the position sizing of TierNScorer.calculate_composite_score, N in 1..3,
\* for a composite in Scores and a beta in Betas
CallThreeTierPosition ==
    /\ pc = "input"
    /\ data = EmptyRecord
    /\ \E tier \in 1..3, score \in Scores, beta \in Betas, up \in BOOLEAN :
           result' = [kind |-> "three_tier_position", tier |-> tier,
                      score |-> score, beta |-> beta,
                      outcome |-> target_position_size(tier, score, beta, up)]
    /\ pc' = "done"
    /\ UNCHANGED data

Next ==
    \/ \E cap \in RecordCaps : SetMarketCap(cap)
    \/ \E key \in Settable(data) :
           \E value \in FieldValues(TierOf(data))[key] : SetField(key, value)
    \/ \E e \in Examples \cup rating_cases : LoadExample(e)
    \/ \E key \in DOMAIN data : RemoveField(key)
    \/ \E ticker \in Tickers, up \in Ties : Calculate(ticker, up)
    \/ \E e \in Examples, ticker \in Tickers, up \in Ties :
           CalculateNext(e, ticker, up)
    \/ CallDetermineTier
    \/ CallPositionSize
    \/ CallBracketScore
    \/ CallThreeTierPosition

Spec == Init /\ [][Next]_vars

-----------------------------------------------------------------------------
(* Properties.  A score, a component and a composite are in hundredths of  *)
(* a point, a market cap and a beta in thousandths, a position in half     *)
(* percents.                                                               *)

\* the tier the documented thresholds 200, 50 and 10 give a market cap
C1_SpecTier(cap) ==
    CASE cap >= 200000 -> 1
      [] cap >= 50000 /\ cap < 200000 -> 2
      [] cap >= 10000 /\ cap < 50000 -> 3
      [] cap < 10000 -> 4

\* the cap lies in the [min_cap, max_cap) interval of tier t
C1_InInterval(cap, t) ==
    /\ TIER_DEFINITIONS[t].min_cap <= cap
    /\ cap < TIER_DEFINITIONS[t].max_cap

\* the states in which a tier has been assigned to a market cap
C1_Assigned == result.kind \in {"tier", "score"}

\* C1, as stated: determine_tier returns Tier 1 iff cap >= 200, Tier 2 iff
\* 50 <= cap < 200, Tier 3 iff 10 <= cap < 50 and Tier 4 iff cap < 10, and
\* for every market cap the returned tier is the one whose [min_cap, max_cap)
\* interval in TIER_DEFINITIONS contains the cap.
C1_TierIntervalEveryCap ==
    C1_Assigned =>
        /\ result.tier = C1_SpecTier(result.market_cap_billions)
        /\ C1_InInterval(result.market_cap_billions, result.tier)

\* C1, amended: the returned tier follows the thresholds 200, 50 and 10 for
\* every market cap; for a cap >= 0 it is the one tier whose interval
\* contains the cap, and a negative cap is Tier 4 although no interval of
\* TIER_DEFINITIONS contains it.
C1_TierThresholds ==
    C1_Assigned =>
        LET cap == result.market_cap_billions
        IN  /\ result.tier \in 1..4
            /\ result.tier = C1_SpecTier(cap)
            /\ cap >= 0 =>
                   \A t \in 1..4 : C1_InInterval(cap, t) <=> t = result.tier
            /\ cap < 0 =>
                   /\ result.tier = 4
                   /\ \A t \in 1..4 : ~C1_InInterval(cap, t)
            /\ cap = 200000 => result.tier = 1
            /\ cap = 199990 => result.tier = 2
            /\ cap = 50000 => result.tier = 2
            /\ cap = 9999 => result.tier = 4

\* determine_tier(200.0) has returned Tier 1
C1_Witness ==
    /\ result.kind = "tier"
    /\ result.market_cap_billions = 200000
    /\ result.tier = 1

\* C2: for every input record, each of the five component scores returned
\* by calculate_score and the composite score lie in [0, 100], in all four
\* tiers.
C2_ScoresInRange ==
    result.kind = "score" =>
        /\ result.composite_score \in 0..10000
        /\ DOMAIN result.components =
               {component_names(result.tier)[i] : i \in 1..5}
        /\ \A n \in DOMAIN result.components :
               result.components[n] \in 0..10000

\* a tier 2 record whose Scale_Moat score is 100.00: its moat bonuses add up
\* to more than 100 before the cap
C2_Witness ==
    /\ result.kind = "score"
    /\ result.tier = 2
    /\ result.components["Scale_Moat"] = 10000
    /\ data = pltr_data

\* C3: calculate_score on the GOOGL record yields tier 1, Valuation 88.75,
\* Quality 94.30, Growth 76.75, Momentum 100.00, Financial_Health 99.50,
\* composite 89.89 and the rating "Strong Buy".
C3_GooglScenario ==
    (pc = "done" /\ data = googl_data) =>
        /\ result.kind = "score"
        /\ result.tier = 1
        /\ result.components["Valuation"] = 8875
        /\ result.components["Quality"] = 9430
        /\ result.components["Growth"] = 7675
        /\ result.components["Momentum"] = 10000
        /\ result.components["Financial_Health"] = 9950
        /\ result.composite_score = 8989
        /\ result.rating = "Strong Buy"

\* calculate_score has returned for the GOOGL record
C3_Witness ==
    /\ pc = "done"
    /\ data = googl_data
    /\ result.kind = "score"
    /\ result.ticker = "GOOGL"
    /\ result.composite_score = 8989

\* the keys of the dict calculate_score returns
C4_ResultKeys ==
    {"kind", "ticker", "tier", "tier_name", "market_cap_billions",
     "composite_score", "rating", "stars", "position_size_pct",
     "min_score_for_tier", "score_buffer", "components", "beta"}

\* C4: for every record in which any subset of fields is absent (the empty
\* record included), calculate_score returns a complete ScoreResult without
\* raising: an absent market cap is treated as 0 and classified Tier 4, an
\* absent beta is treated as 1.0.
C4_AbsentFieldsNeverRaise ==
    (pc = "done" /\ result.kind \in {"score", "raised"}) =>
        /\ result.kind = "score"
        /\ DOMAIN result = C4_ResultKeys
        /\ "market_cap_billions" \notin DOMAIN data =>
               result.market_cap_billions = 0 /\ result.tier = 4
        /\ "beta" \notin DOMAIN data => result.beta = 1000

\* C5: for every tier, every score in [0, 100] and every numeric beta
\* (0, values below 1 and negative values included) calculate_position_size
\* returns a number and never divides by zero, so calculate_score does not
\* raise whatever beta the record carries.
C5_NeverDividesByZero ==
    /\ result.kind # "raised"
    /\ result.kind = "position" => ~result.outcome.raised

\* the base allocations and the volatility multipliers (in hundredths) the
\* position formula is documented with, for tiers 1 to 4
C6_base == <<10, 7, 5, 3>>

C6_mult == <<75, 100, 130, 150>>

\* p half percents is a multiple of 0.5 within 0.25 of
\* (base * score / 100) / (1 + (beta - 1) * mult)
C6_Nearest(p, tier, score, beta) ==
    LET num == 20 * C6_base[tier] * score
        den == 100000 + (beta - 1000) * C6_mult[tier]
    IN  /\ den # 0
        /\ p \in Int
        /\ 2 * Abs(p * den - num) <= Abs(den)

\* C6: calculate_position_size(tier, score, beta) returns
\* (base * score / 100) / (1 + (beta - 1) * mult) rounded to the nearest
\* multiple of 0.5, with base 10/7/5/3 and mult 0.75/1.0/1.3/1.5 and no
\* ceiling: every returned value is a multiple of 0.5 within 0.25 of the
\* unrounded value, and tier 1, score 89.89, beta 1.1 gives 8.5.
C6_PositionFormula ==
    /\ (result.kind = "position" /\ ~result.outcome.raised) =>
           C6_Nearest(result.outcome.position, result.tier, result.score,
                      result.beta)
    /\ (result.kind = "position" /\ result.tier = 1 /\ result.score = 8989
            /\ result.beta = 1100) =>
           ~result.outcome.raised /\ result.outcome.position = 17
    /\ result.kind = "score" =>
           C6_Nearest(result.position_size_pct, result.tier,
                      result.composite_score, result.beta)

\* a returned position above the tier's base allocation: tier 1, score
\* 100.00 and beta 0.5 give 16.0
C6_Witness ==
    /\ result.kind = "position"
    /\ result.tier = 1
    /\ result.score = 10000
    /\ result.beta = 500
    /\ ~result.outcome.raised
    /\ result.outcome.position = 32

\* the documented rating ladder
C7_Ladder(composite) ==
    CASE composite >= 8000 -> "Strong Buy"
      [] composite < 8000 /\ composite >= 7000 -> "Buy"
      [] composite < 7000 /\ composite >= 6000 -> "Hold"
      [] composite < 6000 /\ composite >= 5000 -> "Reduce"
      [] composite < 5000 -> "Sell"

\* C7: the rating calculate_score returns is a function of the composite
\* score alone, the same in all four tiers: >= 80 Strong Buy, >= 70 Buy,
\* >= 60 Hold, >= 50 Reduce, otherwise Sell, each threshold belonging to the
\* higher rating.
C7_RatingLadder ==
    result.kind = "score" => result.rating = C7_Ladder(result.composite_score)

\* a composite of exactly 70.00 is rated Buy
C7_Witness ==
    /\ result.kind = "score"
    /\ result.composite_score = 7000
    /\ result.rating = "Buy"

\* the table's thresholds descend
C8_Descending(brackets) ==
    \A i \in 1..(Len(brackets) - 1) : brackets[i][1] > brackets[i + 1][1]

\* the pairs of the table whose threshold the value reaches
C8_Hits(value, brackets) ==
    {i \in 1..Len(brackets) : value >= brackets[i][1]}

\* C8: for a table sorted by descending threshold, bracket_score returns the
\* score of the first pair with value >= threshold, so a value equal to a
\* threshold gets that threshold's score; a value below every threshold gets
\* the score of the last pair.
C8_BracketInclusive ==
    (result.kind = "bracket" /\ C8_Descending(result.brackets)) =>
        LET hits == C8_Hits(result.value, result.brackets)
            first == CHOOSE i \in hits : \A j \in hits : i <= j
        IN  /\ hits # {} => result.score = result.brackets[first][2]
            /\ hits = {} =>
                   result.score = result.brackets[Len(result.brackets)][2]
            /\ \A i \in 1..Len(result.brackets) :
                   result.value = result.brackets[i][1] =>
                       result.score = result.brackets[i][2]

\* bracket_score was called with a value equal to the second threshold of a
\* descending table and returned the second score, which is not the third
C8_Witness ==
    /\ result.kind = "bracket"
    /\ C8_Descending(result.brackets)
    /\ Len(result.brackets) >= 3
    /\ result.value = result.brackets[2][1]
    /\ result.score = result.brackets[2][2]
    /\ result.brackets[2][2] # result.brackets[3][2]

\* the weight literals of the four calculate_tierN_composite
C9_CompositeWeights ==
    {tier1_composite_w, tier2_composite_w, tier3_composite_w,
     tier4_composite_w}

\* the sub-weight literals of the 20 component scorers
C9_ComponentWeights ==
    {tier1_valuation_w, tier1_quality_w, tier1_growth_w, tier1_momentum_w,
     tier1_financial_health_w,
     tier2_valuation_w, tier2_quality_w, tier2_growth_w, tier2_momentum_w,
     tier2_scale_moat_w,
     tier3_valuation_w, tier3_quality_w, tier3_growth_w, tier3_momentum_w,
     tier3_scale_inflection_w,
     tier4_valuation_w, tier4_quality_w, tier4_growth_w, tier4_momentum_w,
     tier4_disruption_w}

\* C9: for every tier the five composite weights sum to exactly 1.0, in
\* TIER_WEIGHTS and in the literals of calculate_tierN_composite, and within
\* each of the 20 component scorers the sub-weights sum to exactly 1.0.
C9_WeightsSumToOne ==
    /\ \A t \in 1..4 : Len(TIER_WEIGHTS[t]) = 5 /\ SeqSum(TIER_WEIGHTS[t]) = 100
    /\ \A w \in C9_CompositeWeights : Len(w) = 5 /\ SeqSum(w) = 100
    /\ \A w \in C9_ComponentWeights : SeqSum(w) = 100
    /\ result.kind = "score" =>
           SeqSum(CASE result.tier = 1 -> tier1_composite_w
                    [] result.tier = 2 -> tier2_composite_w
                    [] result.tier = 3 -> tier3_composite_w
                    [] result.tier = 4 -> tier4_composite_w) = 100

\* a tier 4 record scored with the seven growth sub-weights and the five
\* composite weights
C9_Witness ==
    /\ result.kind = "score"
    /\ result.tier = 4
    /\ data = rklb_data
    /\ result.components["Growth"] = 9710
    /\ result.composite_score = 9231

\* the bonus/penalty sub-scores of the record d, by tier
C10_SubScores(d) ==
    CASE TierOf(d) = 1 ->
           {tier1_quality_moat_score(d), tier1_quality_mgmt_score(d),
            tier1_growth_consistency_score(d), tier1_growth_eps_score(d),
            tier1_growth_future_score(d), tier1_fh_cap_alloc_score(d)}
      [] TierOf(d) = 2 ->
           {tier2_valuation_pe_ps_score(d), tier2_quality_retention_score(d),
            tier2_quality_market_pos_score(d), tier2_growth_forward_score(d),
            tier2_growth_eps_vs_rev_score(d), tier2_growth_drivers_score(d),
            tier2_momentum_return_score(d), tier2_momentum_rel_score(d),
            tier2_sm_moat_score(d), tier2_sm_partnership_score(d)}
      [] TierOf(d) = 3 ->
           {tier3_valuation_ps_score(d), tier3_valuation_insider_score(d),
            tier3_quality_profit_score(d), tier3_growth_accel_score(d),
            tier3_growth_forward_score(d), tier3_growth_drivers_score(d),
            tier3_momentum_rel_score(d), tier3_momentum_sentiment_score(d),
            tier3_si_moat_score(d), tier3_si_partnership_score(d)}
      [] TierOf(d) = 4 ->
           {tier4_valuation_ps_score(d), tier4_valuation_insider_score(d),
            tier4_quality_rev_quality_score(d),
            tier4_quality_profit_path_score(d), tier4_growth_consist_score(d),
            tier4_growth_drivers_score(d), tier4_growth_forward_score(d),
            tier4_growth_catalyst_score(d), tier4_momentum_sentiment_score(d),
            tier4_disruption_tech_moat_score(d),
            tier4_disruption_catalyst_score(d)}

\* C10: every bonus/penalty sub-score, in every tier and for every
\* combination of its flags, lies in [0, 100] after the bonus/penalty
\* arithmetic: stacked bonuses never exceed 100 and stacked penalties never
\* go below 0.
C10_SubScoresClamped ==
    \A x \in C10_SubScores(data) : x \in 0..100

\* a scored tier 4 record with all five sentiment bonuses: they add up to
\* 155 and the sub-score is 100
C10_Witness ==
    /\ result.kind = "score"
    /\ result.tier = 4
    /\ Get(data, "sentiment_bonuses", {}) =
           {"rising_mentions_bullish", "positive_reddit",
            "analyst_upgrades_3plus", "target_increases", "positive_media"}
    /\ tier4_momentum_sentiment_sum(data) = 155
    /\ tier4_momentum_sentiment_score(data) = 100

\* the weight literals of calculate_tierN_composite
C11_Weights(tier) ==
    CASE tier = 1 -> tier1_composite_w
      [] tier = 2 -> tier2_composite_w
      [] tier = 3 -> tier3_composite_w
      [] tier = 4 -> tier4_composite_w

\* the composite calculate_tierN_composite returns when its five scorers
\* return comps
C11_Composite(tier, comps, up) ==
    round2(WSum(comps, C11_Weights(tier)), 10000, up)

\* the five component scores of the result r, in the order of the weights
C11_Components(r) ==
    <<r.components[component_names(r.tier)[1]],
      r.components[component_names(r.tier)[2]],
      r.components[component_names(r.tier)[3]],
      r.components[component_names(r.tier)[4]],
      r.components[component_names(r.tier)[5]]>>

\* the scores a component of c hundredths is raised to
C11_Raises(c) == {x \in {c + 1, c + 10, c + 250, 10000} : x > c /\ x <= 10000}

\* C11: for each tier's weight table, raising any single component score
\* while the other four are held fixed never lowers the composite score, the
\* rounding to 2 decimals included.
C11_CompositeMonotone ==
    result.kind = "score" =>
        LET comps == C11_Components(result)
        IN  /\ \E up \in BOOLEAN :
                   result.composite_score =
                       C11_Composite(result.tier, comps, up)
            /\ \A i \in 1..5 : \A x \in C11_Raises(comps[i]) :
                   \A up \in BOOLEAN :
                       C11_Composite(result.tier, [comps EXCEPT ![i] = x], up)
                           >= result.composite_score

\* the scored tier 3 example: raising Momentum by 0.01 leaves the rounded
\* composite where it is, raising Growth by 2.50 lifts it
C11_Witness ==
    /\ result.kind = "score"
    /\ data = crwd_data
    /\ LET comps == C11_Components(result)
       IN  /\ C11_Composite(3, [comps EXCEPT ![4] = comps[4] + 1], FALSE)
                  = result.composite_score
           /\ C11_Composite(3, [comps EXCEPT ![3] = comps[3] + 250], FALSE)
                  > result.composite_score

\* the documented minimum qualifying scores of tiers 1 to 4
C12_min_score == <<60, 65, 67, 70>>

\* the documented name of the fifth component of tiers 1 to 4
C12_fifth ==
    <<"Financial_Health", "Scale_Moat", "Scale_Inflection", "Disruption">>

\* C12: the ScoreResult is consistent with the assigned tier:
\* min_score_for_tier is 60/65/67/70 for tiers 1/2/3/4, score_buffer equals
\* composite_score - min_score_for_tier, the components mapping has exactly
\* the five entries Valuation, Quality, Growth, Momentum and the tier's own
\* fifth, and beta and market cap are echoed from the input.
C12_ResultConsistent ==
    (pc = "done" /\ result.kind = "score") =>
        /\ result.tier \in 1..4
        /\ result.min_score_for_tier = C12_min_score[result.tier]
        /\ result.score_buffer =
               result.composite_score - 100 * result.min_score_for_tier
        /\ DOMAIN result.components =
               {"Valuation", "Quality", "Growth", "Momentum",
                C12_fifth[result.tier]}
        /\ Cardinality(DOMAIN result.components) = 5
        /\ "beta" \in DOMAIN data => result.beta = data["beta"]
        /\ "market_cap_billions" \in DOMAIN data =>
               result.market_cap_billions = data["market_cap_billions"]

\* a scored tier 3 record that carries a beta, below the tier's minimum of
\* 67: its buffer is negative
C12_Witness ==
    /\ pc = "done"
    /\ result.kind = "score"
    /\ result.tier = 3
    /\ "beta" \in DOMAIN data
    /\ result.beta = data["beta"]
    /\ result.min_score_for_tier = 67
    /\ result.score_buffer < 0
    /\ result.score_buffer = result.composite_score - 6700

\* the results r1 and r2 of two calculate_score calls are equal, the echoed
\* ticker aside
C13_SameButTicker(r1, r2) ==
    /\ r1.kind = r2.kind
    /\ r1.kind = "score" => [r1 EXCEPT !.ticker = ""] = [r2 EXCEPT !.ticker = ""]
    /\ r1.kind = "raised" => r1 = r2

\* every rounding of the call falls to the lower neighbour on a tie
C13_Down == [valuation |-> FALSE, composite |-> FALSE, position |-> FALSE]

\* the outcome r is what calculate_score gives for the record d under every
\* ticker, the roundings of d going the way up
C13_OutcomeOf(r, d, up) ==
    \A ticker \in Tickers : C13_SameButTicker(r, calculate_score(ticker, d, up))

\* the outcome held is a function of the record alone: of its fields and of
\* the way the roundings of that record go, not of the ticker and not of the
\* calls made before
C13_FunctionOfData ==
    (pc = "done" /\ result.kind \in {"score", "raised"}) =>
        \/ C13_OutcomeOf(result, data, C13_Down)
        \/ \E up \in Ties \ {C13_Down} : C13_OutcomeOf(result, data, up)

\* no rounding of calculate_score on the record d is on a tie: the exact
\* arithmetic fixes the one outcome
C13_NoTie(d) ==
    \A up \in Ties :
        calculate_score("GOOGL", d, up) = calculate_score("GOOGL", d, C13_Down)

\* a call leaves the record it was passed as it is, and a second call on an
\* equal record returns an equal result whatever the ticker (on a record with
\* a rounding on a tie each call's outcome is one of the two neighbours, see
\* RoundFloat, and the two calls are compared through C13_FunctionOfData)
C13_CallStep ==
    /\ (pc = "input" /\ pc' = "done") => data' = data
    /\ (pc = "done" /\ pc' = "done" /\ data' = data /\ C13_NoTie(data)) =>
           C13_SameButTicker(result, result')

C14_NonIncreasingInBeta ==
    (result.kind = "position" /\ result.score > 0 /\ ~result.outcome.raised) =>
        \A beta \in Betas : \A up \in BOOLEAN :
            LET higher ==
                    calculate_position_size(result.tier, result.score, beta, up)
            IN  (beta > result.beta /\ ~higher.raised) =>
                    higher.position <= result.outcome.position

\* the sequence s strictly increases
C15_Increasing(s) == \A i \in 1..(Len(s) - 1) : s[i] < s[i + 1]

\* the sequence s strictly decreases
C15_Decreasing(s) == \A i \in 1..(Len(s) - 1) : s[i] > s[i + 1]

\* C15: across tiers 1 to 4 the Growth composite weight strictly increases
\* (0.25 < 0.32 < 0.38 < 0.40), the Valuation composite weight strictly
\* decreases (0.20 > 0.18 > 0.15 > 0.10) and the minimum qualifying score
\* strictly increases (60 < 65 < 67 < 70).
C15_ProgressiveTiers ==
    /\ [t \in 1..4 |-> TIER_WEIGHTS[t][3]] = <<25, 32, 38, 40>>
    /\ [t \in 1..4 |-> TIER_WEIGHTS[t][1]] = <<20, 18, 15, 10>>
    /\ [t \in 1..4 |-> TIER_DEFINITIONS[t].min_score] = <<60, 65, 67, 70>>
    /\ C15_Increasing([t \in 1..4 |-> TIER_WEIGHTS[t][3]])
    /\ C15_Decreasing([t \in 1..4 |-> TIER_WEIGHTS[t][1]])
    /\ C15_Increasing([t \in 1..4 |-> TIER_DEFINITIONS[t].min_score])
    /\ C15_Increasing([t \in 1..4 |-> C11_Weights(t)[3]])
    /\ C15_Decreasing([t \in 1..4 |-> C11_Weights(t)[1]])
    /\ result.kind = "score" =>
           /\ result.min_score_for_tier = TIER_DEFINITIONS[result.tier].min_score
           /\ \A t \in 1..4 :
                  t < result.tier =>
                      /\ TIER_DEFINITIONS[t].min_score < result.min_score_for_tier
                      /\ C11_Weights(t)[3] < C11_Weights(result.tier)[3]
                      /\ C11_Weights(t)[1] > C11_Weights(result.tier)[1]

\* a record scored in tier 2 against the minimum of 65, above tier 1's 60
C15_Witness ==
    /\ result.kind = "score"
    /\ result.tier = 2
    /\ result.ticker = "PLTR"
    /\ result.min_score_for_tier = 65
    /\ TIER_DEFINITIONS[1].min_score < result.min_score_for_tier

\* the ceilings of the 3-tier variant, 15% / 8% / 3%, in hundredths of a
\* percent
C16_ceiling == <<1500, 800, 300>>

\* C16: in the 3-tier variant the recommended position size never exceeds
\* the tier ceiling for any score and beta: Tier1Scorer <= 15%, Tier2Scorer
\* <= 8%, Tier3Scorer <= 3%.
C16_ThreeTierCeiling ==
    (result.kind = "three_tier_position" /\ ~result.outcome.raised) =>
        result.outcome.position <= C16_ceiling[result.tier]

\* a Tier 3 position of the 3-tier variant held at the ceiling: score 100
\* and beta 0.5 give 3 / 0.25 = 12%, returned as 3.00%
C16_Witness ==
    /\ result.kind = "three_tier_position"
    /\ result.tier = 3
    /\ result.score = 10000
    /\ result.beta = 500
    /\ ~result.outcome.raised
    /\ result.outcome.position = 300

\* min(100, x)
C17_Min100(x) == IF x < 100 THEN x ELSE 100

\* base + the increments of all the Tier 1 moat flags that are true
C17_MoatSum(flags) ==
    50 + (IF "network_effects" \in flags THEN 25 ELSE 0)
       + (IF "economies_of_scale" \in flags THEN 20 ELSE 0)
       + (IF "switching_costs" \in flags THEN 20 ELSE 0)
       + (IF "intangible_assets" \in flags THEN 15 ELSE 0)
       + (IF "regulatory_moat" \in flags THEN 10 ELSE 0)

\* base + the increments of all the Tier 2 market position flags that are
\* true
C17_MarketPositionSum(flags) ==
    50 + (IF "top_1_or_2" \in flags THEN 35 ELSE 0)
       + (IF "top_3_to_5" \in flags THEN 25 ELSE 0)
       + (IF "gaining_share" \in flags THEN 25 ELSE 0)
       + (IF "category_leader" \in flags THEN 30 ELSE 0)

\* C17: every bonus sub-score equals min(100, base + the sum of the
\* increments of all of its flags that are true): bonuses are summed before
\* capping and no true flag's increment is dropped, for every flag
\* combination (Tier 1 moat; Tier 2 market position with top_1_or_2,
\* top_3_to_5, gaining_share, category_leader).
C17_BonusesSummedBeforeCap ==
    /\ TierOf(data) = 1 =>
           tier1_quality_moat_score(data) =
               C17_Min100(C17_MoatSum(Get(data, "moat_bonuses", {})))
    /\ TierOf(data) = 2 =>
           tier2_quality_market_pos_score(data) =
               C17_Min100(C17_MarketPositionSum(
                   Get(data, "market_position_bonuses", {})))

\* the record d with the field key at the value v
C18_With(d, key, v) == (key :> v) @@ d

\* on the record d, whose field key is on a ladder threshold, the sub-score F
\* is the one of the value just above the threshold and not the one of the
\* value just below it
C18_InHigherBracket(F(_), d, key) ==
    /\ F(d) = F(C18_With(d, key, d[key] + 1))
    /\ F(d) # F(C18_With(d, key, d[key] - 1))

\* C18: boundary values belong to the higher bracket in every
\* higher-is-better threshold ladder of the engine, inline if/elif ladders
\* included: a value equal to a ladder threshold scores the same as values
\* just above it, never the same as values just below it (net_cash_billions
\* = 75, earnings_beat_rate_pct = 80, gross_margin_pct = 75, tam_billions =
\* 500).
C18_BoundaryInHigherBracket ==
    /\ (TierOf(data) = 1
            /\ Get(data, "net_cash_billions", 1) \in K({75, 50, 25, 0, -50})) =>
           C18_InHigherBracket(tier1_fh_net_cash_score, data,
                               "net_cash_billions")
    /\ (TierOf(data) = 1
            /\ Get(data, "earnings_beat_rate_pct", 1) \in K({80, 70, 60})) =>
           C18_InHigherBracket(tier1_quality_mgmt_base, data,
                               "earnings_beat_rate_pct")
    /\ (TierOf(data) = 1
            /\ Get(data, "tam_billions", 1) \in K({500, 200, 100})
            /\ Get(data, "market_share_pct", 100000) < 20000) =>
           C18_InHigherBracket(tier1_growth_future_base, data, "tam_billions")
    /\ (TierOf(data) = 2
            /\ Get(data, "gross_margin_pct", 1) \in K({75, 65, 55, 45, 35})) =>
           C18_InHigherBracket(tier2_quality_gross_margin_score, data,
                               "gross_margin_pct")

\* the position result r is at least the position of every higher tier number
\* for the same score and the same beta
C19_AtLeastRiskierTiers(r) ==
    \A tier \in 1..4 : \A up \in BOOLEAN :
        LET riskier == calculate_position_size(tier, r.score, r.beta, up)
        IN  (tier > r.tier /\ ~riskier.raised) =>
                riskier.position <= r.outcome.position

\* C19 as stated: for the same score and the same beta,
\* calculate_position_size is non-increasing in the tier number (tier 1 >=
\* tier 2 >= tier 3 >= tier 4), for every beta.
C19_NonIncreasingInTier ==
    (result.kind = "position" /\ ~result.outcome.raised) =>
        C19_AtLeastRiskierTiers(result)

\* C19: for the same score in 0..100 and the same beta of at least 1.0,
\* calculate_position_size returns without raising and is non-increasing in
\* the tier number (tier 1 >= tier 2 >= tier 3 >= tier 4).
C19_NonIncreasingInTierFromBetaOne ==
    (result.kind = "position" /\ result.beta >= 1000) =>
        /\ ~result.outcome.raised
        /\ \A tier \in 1..4 : \A up \in BOOLEAN :
               ~calculate_position_size(tier, result.score, result.beta,
                                        up).raised
        /\ C19_AtLeastRiskierTiers(result)

\* calculate_position_size(3, 100.0, 3.0) returned 1.5, above the 1.0 of
\* tier 4 for the same score and beta
C19_Witness ==
    /\ result.kind = "position"
    /\ result.tier = 3
    /\ result.score = 10000
    /\ result.beta = 3000
    /\ ~result.outcome.raised
    /\ result.outcome.position = 3
    /\ calculate_position_size(4, 10000, 3000, TRUE).position = 2

\* the record d without the field key
C20_Without(d, key) == [k \in DOMAIN d \ {key} |-> d[k]]

\* the records that differ from d at most in cac_payback_months,
\* gross_margin_expanding and cohorts_improving, each of them absent or at
\* one of its values
C20_ProxyVariants(d) ==
    LET base == C20_Without(C20_Without(C20_Without(d,
                    "cac_payback_months"), "gross_margin_expanding"),
                    "cohorts_improving")
        months == {base} \cup
                      {C18_With(base, "cac_payback_months", v) :
                           v \in {6000, 11999, 12000, 24000}}
        expanding == months \cup
                         {C18_With(m, "gross_margin_expanding", b) :
                              m \in months, b \in BOOLEAN}
    IN  expanding \cup
            {C18_With(e, "cohorts_improving", b) :
                 e \in expanding, b \in BOOLEAN}

\* C20: unit economics (Tier 3 and Tier 4 quality) is scored from LTV/CAC
\* whenever ltv_cac_ratio is present in the record, and the proxies are
\* consulted only when it is absent: with ltv_cac_ratio present, no value of
\* cac_payback_months, gross_margin_expanding or cohorts_improving changes
\* the unit-economics sub-score.
C20_ProxiesOnlyWhenAbsent ==
    ({"market_cap_billions", "ltv_cac_ratio"} \subseteq DOMAIN data) =>
        /\ TierOf(data) = 3 =>
               \A v \in C20_ProxyVariants(data) :
                   tier3_quality_unit_econ_score(v) =
                       tier3_quality_unit_econ_score(data)
        /\ TierOf(data) = 4 =>
               \A v \in C20_ProxyVariants(data) :
                   tier4_quality_unit_econ_score(v) =
                       tier4_quality_unit_econ_score(data)

\* the records that differ from a record of ds at most in the fields of
\* keys, each of them absent or at one of its values in FV
RECURSIVE C21_Vary(_, _, _)
C21_Vary(ds, keys, FV) ==
    IF keys = {} THEN ds
    ELSE LET key == CHOOSE k \in keys : TRUE
         IN  C21_Vary({C20_Without(d, key) : d \in ds}
                          \cup {C18_With(d, key, v) : d \in ds, v \in FV[key]},
                      keys \ {key}, FV)

\* the record d restricted to the fields of keys
C21_Restrict(d, keys) == [k \in DOMAIN d \cap keys |-> d[k]]

C21_Nrr2 == {"nrr_pct", "dollar_based_retention_pct"}

C21_Proxies2 == {"repeat_revenue_pct", "customer_churn_pct",
                 "customer_growth_pct", "top_customer_concentration_pct"}

C21_Proxies3 == {"top_customer_concentration_pct", "customer_growth_pct",
                 "repeat_revenue_pct"}

\* the sequence of proxy scores s is at least the sequence t, proxy by proxy
C21_AtLeast(s, t) == \A i \in 1..Len(s) : s[i] >= t[i]

\* the sub-score Score of the record d is the maximum of its proxy scores
\* Proxies(d), no change of the fields of nrr changes it and no change of one
\* field of proxies that lowers no proxy score lowers it
C21_NonSaas(Score(_), Proxies(_), d, nrr, proxies, FV) ==
    /\ \E i \in 1..Len(Proxies(d)) : Score(d) = Proxies(d)[i]
    /\ \A i \in 1..Len(Proxies(d)) : Score(d) >= Proxies(d)[i]
    /\ \A v \in C21_Vary({d}, nrr, FV) : Score(v) = Score(d)
    /\ \A key \in proxies : \A v \in C21_Vary({d}, {key}, FV) :
           C21_AtLeast(Proxies(v), Proxies(d)) => Score(v) >= Score(d)

\* the sub-score Score of the SaaS record d is the one of its fields is_saas
\* and nrr alone, and no change of the fields of proxies changes it
C21_Saas(Score(_), d, nrr, proxies, FV) ==
    /\ Score(d) = Score(C21_Restrict(d, {"is_saas"} \cup nrr))
    /\ \A v \in C21_Vary({d}, proxies, FV) : Score(v) = Score(d)

\* C21: customer-retention quality branches on is_saas.  When is_saas is
\* false the sub-score is the maximum of the independently computed proxy
\* scores (Tier 2: repeat revenue, churn, customer growth, concentration;
\* Tier 3: concentration, customer growth, repeat revenue), so it is at least
\* each proxy score, improving a proxy never lowers it and the NRR fields
\* have no effect.  When is_saas is true it depends only on NRR (plus, in
\* Tier 2, the +15 dollar-based-retention kicker capped at 100) and the
\* proxies have no effect.
C21_RetentionBranchesOnSaas ==
    /\ (TierOf(data) = 2 /\ "market_cap_billions" \in DOMAIN data) =>
           IF Get(data, "is_saas", FALSE)
           THEN /\ C21_Saas(tier2_quality_retention_score, data, C21_Nrr2,
                            C21_Proxies2, FieldValues2)
                /\ tier2_quality_retention_score(data) <= 100
           ELSE C21_NonSaas(tier2_quality_retention_score,
                            tier2_quality_retention_proxies, data, C21_Nrr2,
                            C21_Proxies2, FieldValues2)
    /\ (TierOf(data) = 3 /\ "market_cap_billions" \in DOMAIN data) =>
           IF Get(data, "is_saas", FALSE)
           THEN C21_Saas(tier3_quality_customer_score, data, {"nrr_pct"},
                         C21_Proxies3, FieldValues3)
           ELSE C21_NonSaas(tier3_quality_customer_score,
                            tier3_quality_customer_proxies, data, {"nrr_pct"},
                            C21_Proxies3, FieldValues3)

\* a scored tier 2 record that is not SaaS, whose churn proxy (75) is the
\* best of its proxy scores and gives the sub-score, below the 100 its NRR
\* would give on the SaaS branch
C21_Witness ==
    /\ result.kind = "score"
    /\ result.tier = 2
    /\ "is_saas" \in DOMAIN data
    /\ ~data["is_saas"]
    /\ Get(data, "customer_churn_pct", 100000) = 5000
    /\ tier2_quality_retention_proxies(data) = <<40, 75, 60, 25>>
    /\ tier2_quality_retention_score(data) = 75
    /\ tier2_quality_retention_saas(
           C18_With(data, "nrr_pct", 131000)) = 100

C22_PsFields == {"ps_ratio", "revenue_growth_recent_yoy_pct"}

\* C22: Tier 2 valuation selects its 55% sub-score by the profitability
\* flag.  When is_profitable is true or absent the sub-score is a function of
\* forward_pe only, and ps_ratio and growth have no effect; when
\* is_profitable is false it is a function of ps_ratio and
\* revenue_growth_recent_yoy_pct only, and forward_pe has no effect on it.
C22_ProfitabilitySelectsMultiple ==
    (TierOf(data) = 2 /\ "market_cap_billions" \in DOMAIN data) =>
        IF Get(data, "is_profitable", TRUE)
        THEN /\ tier2_valuation_pe_ps_score(data) =
                    tier2_valuation_pe_ps_score(
                        C21_Restrict(data, {"is_profitable", "forward_pe"}))
             /\ \A v \in C21_Vary({data}, C22_PsFields, FieldValues2) :
                    tier2_valuation_pe_ps_score(v) =
                        tier2_valuation_pe_ps_score(data)
        ELSE /\ tier2_valuation_pe_ps_score(data) =
                    tier2_valuation_pe_ps_score(
                        C21_Restrict(data, {"is_profitable"} \cup C22_PsFields))
             /\ \A v \in C21_Vary({data}, {"forward_pe"}, FieldValues2) :
                    tier2_valuation_pe_ps_score(v) =
                        tier2_valuation_pe_ps_score(data)

\* a scored tier 2 record of an unprofitable issuer that holds both
\* multiples: the sub-score is the 85 of its P/S of 8, not the 100 its
\* forward P/E of 20 gives a profitable issuer
C22_Witness ==
    /\ result.kind = "score"
    /\ result.tier = 2
    /\ "is_profitable" \in DOMAIN data
    /\ ~data["is_profitable"]
    /\ Get(data, "forward_pe", 0) = 20000
    /\ Get(data, "ps_ratio", 0) = 8000
    /\ tier2_valuation_pe_ps_score(data) = 85
    /\ tier2_valuation_pe_ps_score(C18_With(data, "is_profitable", TRUE)) = 100

\* on the record d, which holds ps_ratio, no lower P/S of FV gets a lower
\* P/S sub-score Score than d does, the other fields being equal
C23_LowerPsScoresAtLeast(Score(_), d, FV) ==
    \A ps \in FV["ps_ratio"] :
        ps < d["ps_ratio"] => Score(C18_With(d, "ps_ratio", ps)) >= Score(d)

\* C23: the growth-context bonus only partially excuses an elevated
\* Price/Sales: in every P/S scoring path (Tier 2 unprofitable branch, Tier 3,
\* Tier 4), for a fixed growth rate a higher P/S never receives a strictly
\* higher P/S sub-score (base plus bonus, capped) than a lower P/S.
C23_BonusNeverOvertakes ==
    ({"market_cap_billions", "ps_ratio"} \subseteq DOMAIN data) =>
        /\ (TierOf(data) = 2 /\ ~Get(data, "is_profitable", TRUE)) =>
               C23_LowerPsScoresAtLeast(tier2_valuation_pe_ps_score, data,
                                        FieldValues2)
        /\ TierOf(data) = 3 =>
               C23_LowerPsScoresAtLeast(tier3_valuation_ps_score, data,
                                        FieldValues3)
        /\ TierOf(data) = 4 =>
               C23_LowerPsScoresAtLeast(tier4_valuation_ps_score, data,
                                        FieldValues4)

\* the ladder on delta (in thousandths of a point) applied to base 50
C24_Ladder(delta) ==
    CASE delta > 3000 -> 100
      [] 1000 <= delta /\ delta <= 3000 -> 80
      [] -1000 <= delta /\ delta < 1000 -> 60
      [] -3000 <= delta /\ delta < -1000 -> 40
      [] delta < -3000 -> 20

\* deltas on, next to and between the steps of the ladder
C24_Deltas ==
    {-9000, -3001, -3000, -2999, -2000, -1001, -1000, -999, 0, 999, 1000,
     1001, 2000, 2999, 3000, 3001, 9000}

\* the record d with the recent growth delta above its 3-year CAGR
C24_AtDelta(d, delta) ==
    C18_With(d, "revenue_growth_recent_yoy_pct",
             Get(d, "revenue_cagr_3yr_pct", 0) + delta)

\* C24: Tier 1 growth consistency follows the signed-step ladder on delta =
\* recent YoY growth - 3-year CAGR applied to base 50: delta > 3 -> 100,
\* 1 <= delta <= 3 -> 80, |delta| <= 1 (below 1) -> 60, -3 <= delta < -1 ->
\* 40, delta < -3 -> 20; the ladder covers every delta and the sub-score is
\* non-decreasing in delta.
C24_ConsistencyLadder ==
    (TierOf(data) = 1 /\ "market_cap_billions" \in DOMAIN data) =>
        /\ tier1_growth_consistency_score(data) =
               C24_Ladder(Get(data, "revenue_growth_recent_yoy_pct", 0)
                          - Get(data, "revenue_cagr_3yr_pct", 0))
        /\ \A delta \in C24_Deltas :
               tier1_growth_consistency_score(C24_AtDelta(data, delta)) =
                   C24_Ladder(delta)
        /\ \A lo, hi \in C24_Deltas :
               lo <= hi =>
                   tier1_growth_consistency_score(C24_AtDelta(data, lo)) <=
                       tier1_growth_consistency_score(C24_AtDelta(data, hi))

\* a scored tier 1 record whose recent growth of 1 is exactly 1 above its
\* CAGR of 0: the sub-score is 80, and 60 just below
C24_Witness ==
    /\ result.kind = "score"
    /\ result.tier = 1
    /\ Get(data, "revenue_growth_recent_yoy_pct", 0) = 1000
    /\ "revenue_cagr_3yr_pct" \in DOMAIN data
    /\ data["revenue_cagr_3yr_pct"] = 0
    /\ tier1_growth_consistency_score(data) = 80
    /\ tier1_growth_consistency_score(C24_AtDelta(data, 999)) = 60

\* EPS growth rates at the offsets -8 .. 9 from the revenue growth rev
C25_EpsGrowths(rev) == {rev + 1000 * x : x \in -8..9}

\* the sub-score Score of the record d with its EPS growth field key at each
\* of the rates of eps is non-decreasing in that rate
C25_NonDecreasing(Score(_), d, key, eps) ==
    \A lo, hi \in eps :
        lo <= hi => Score(C18_With(d, key, lo)) <= Score(C18_With(d, key, hi))

\* C25: the EPS-versus-revenue cross-check rewards operating leverage and
\* penalises margin compression consistently: for a fixed revenue growth, the
\* sub-score (Tier 1 eps_score with its +-15 adjustment clamped to [0,100];
\* Tier 2 eps_vs_rev_score) is non-decreasing in EPS growth, so EPS growth
\* further above revenue growth never scores lower.
C25_EpsCheckMonotone ==
    ("market_cap_billions" \in DOMAIN data) =>
        /\ TierOf(data) = 1 =>
               C25_NonDecreasing(tier1_growth_eps_score, data,
                   "eps_cagr_3yr_pct",
                   FieldValues1["eps_cagr_3yr_pct"] \cup
                       C25_EpsGrowths(Get(data, "revenue_cagr_3yr_pct", 0)))
        /\ TierOf(data) = 2 =>
               C25_NonDecreasing(tier2_growth_eps_vs_rev_score, data,
                   "eps_growth_pct",
                   FieldValues2["eps_growth_pct"] \cup
                       C25_EpsGrowths(Get(data, "revenue_growth_ttm_pct", 0)))

\* the PEG sub-score Score of the record d is 30 when peg_ratio is absent and
\* 100 only when a peg_ratio below 1.0 is present
C26_Peg(Score(_), d) ==
    /\ "peg_ratio" \notin DOMAIN d => Score(d) = 30
    /\ Score(d) = 100 => ("peg_ratio" \in DOMAIN d /\ d["peg_ratio"] < 1000)

\* C26: PEG scoring in Tier 1 and Tier 2 valuation: an absent peg_ratio
\* defaults to the unfavourable placeholder and receives the lowest PEG
\* sub-score (30), and the top sub-score 100 of the favourable branch is
\* reached only when a peg_ratio below 1.0 is actually present in the record.
C26_PegPlaceholder ==
    ("market_cap_billions" \in DOMAIN data) =>
        /\ TierOf(data) = 1 => C26_Peg(tier1_valuation_peg_score, data)
        /\ TierOf(data) = 2 => C26_Peg(tier2_valuation_peg_score, data)

\* C27: the Tier 1 P/E sub-score is the neutral 50 when P/E data is missing:
\* whenever pe_ratio or historical_pe_avg is absent from the record (or the
\* historical average is not positive), the P/E sub-score used in
\* tier1_valuation is 50.
C27_MissingPeIsNeutral ==
    (/\ "market_cap_billions" \in DOMAIN data
     /\ TierOf(data) = 1
     /\ \/ "pe_ratio" \notin DOMAIN data
        \/ "historical_pe_avg" \notin DOMAIN data
        \/ data["historical_pe_avg"] <= 0) =>
        tier1_valuation_pe_score(data).num =
            50 * tier1_valuation_pe_score(data).den

\* the relative-valuation sub-score Score of the record d, which holds no
\* sector median, is the same under every setting of its own multiples
C28_FixedDefault(Score(_), d, multiples, FV) ==
    \A v \in C21_Vary({d}, multiples, FV) : Score(v) = Score(d)

\* C28: when the sector-median multiple is absent from the record
\* (sector_median_pe in Tier 2, sector_median_ps in Tiers 3 and 4), the
\* relative-valuation sub-score takes one fixed default value per tier that
\* does not depend on the stock's own multiple (forward_pe or ps_ratio).
C28_AbsentMedianFixedDefault ==
    ("market_cap_billions" \in DOMAIN data) =>
        /\ (TierOf(data) = 2 /\ "sector_median_pe" \notin DOMAIN data) =>
               C28_FixedDefault(tier2_valuation_rel_val_score, data,
                                {"forward_pe", "ps_ratio"}, FieldValues2)
        /\ (TierOf(data) = 3 /\ "sector_median_ps" \notin DOMAIN data) =>
               /\ tier3_valuation_rel_val_score(data) = 75
               /\ C28_FixedDefault(tier3_valuation_rel_val_score, data,
                                   {"ps_ratio"}, FieldValues3)
        /\ (TierOf(data) = 4 /\ "sector_median_ps" \notin DOMAIN data) =>
               /\ tier4_valuation_rel_val_score(data) = 75
               /\ C28_FixedDefault(tier4_valuation_rel_val_score, data,
                                   {"ps_ratio"}, FieldValues4)

\* the base allocations 10, 7, 5, 3 of tiers 1 to 4 in half percents
C29_base == <<20, 14, 10, 6>>

\* C29: for every tier, every score in [0,100] and every beta >= 1,
\* calculate_position_size returns a value between 0 and the tier's base
\* allocation (10/7/5/3); positions above the base allocation or below 0 can
\* only arise when beta < 1.
C29_WithinBaseFromBetaOne ==
    (result.kind = "position" /\ result.score \in 0..10000) =>
        /\ result.beta >= 1000 =>
               /\ ~result.outcome.raised
               /\ result.outcome.position >= 0
               /\ result.outcome.position <= C29_base[result.tier]
        /\ (/\ ~result.outcome.raised
            /\ \/ result.outcome.position > C29_base[result.tier]
               \/ result.outcome.position < 0) =>
               result.beta < 1000

\* calculate_position_size(1, 100.0, 1.0) returned the whole base allocation
\* of 10.0, and the same call with beta 0.9 returns 11.0, above it
C29_Witness ==
    /\ result.kind = "position"
    /\ result.tier = 1
    /\ result.score = 10000
    /\ result.beta = 1000
    /\ ~result.outcome.raised
    /\ result.outcome.position = 20
    /\ calculate_position_size(1, 10000, 900, TRUE).position = 22

\* C30: the reported composite is recomputable from the reported result: for
\* every record, composite_score equals the sum over the five entries of the
\* components mapping of (component score x the weight that TIER_WEIGHTS
\* holds for the assigned tier), rounded to 2 decimals: the weights
\* hard-coded in calculate_tierN_composite agree with the TIER_WEIGHTS table
\* and the composite is built from the already-rounded component scores.
C30_CompositeRecomputable ==
    (pc = "done" /\ result.kind = "score") =>
        /\ DOMAIN result.components =
               {component_names(result.tier)[i] : i \in 1..5}
        /\ \E up \in BOOLEAN :
               result.composite_score =
                   round2(WSum(C11_Components(result),
                               TIER_WEIGHTS[result.tier]), 10000, up)
        /\ result.composite_score * 100
               - WSum(C11_Components(result), TIER_WEIGHTS[result.tier])
                   \in -50..50

\* the scored RKLB record: tier 4, the weighted sum of its five reported
\* components is 92.315 and the composite one of its two roundings
C30_Witness ==
    /\ pc = "done"
    /\ result.kind = "score"
    /\ data = rklb_data
    /\ result.tier = 4
    /\ WSum(C11_Components(result), TIER_WEIGHTS[4]) = 923150
    /\ result.composite_score \in {9231, 9232}

=============================================================================
